---- MODULE Spec2Model ----
(***************************************************************************)
(* A model of GoTamura/modeling: the shared material / shader caches that  *)
(* ObjModel::load fills under the scene's read-write locks, the inspection *)
(* UI that reads them, and the camera controller.                          *)
(***************************************************************************)
EXTENDS Integers, Sequences, FiniteSets, TLC

(***************************************************************************)
(* Bounds of the model.                                                    *)
(***************************************************************************)
NumLoaders == 2

Loaders == 1..NumLoaders

UiThread == 0

NoOwner == -1

VARIABLES
    sceneLock,        \* Arc<RwLock<Scene>>: [writer, readers, poisoned]
    shadersLock,      \* Scene.shaders lock
    materialsLock,    \* Scene.materials lock
    collectionLock,   \* Arc<RwLock<Collection>>
    modelsLock,       \* Collection.models lock
    shaders,          \* HashMap<String, Arc<Shader>>: key -> handle
    materials,        \* HashMap<String, Arc<Material>>: key -> handle
    sceneModels,      \* Scene.models: the loaded models, each its meshes' materials
    nextId,           \* identity of the next Arc allocation
    gpuAllocs,        \* number of GPU objects created on the device so far
    shaderFilesOk,    \* the compiled shader files exist in OUT_DIR
    pc,               \* position of every loader task
    task,             \* locals of every loader task
    uiPc,             \* position of MyApp::update
    drawn             \* material handles bound by the last draw pass

cacheVars == <<sceneLock, shadersLock, materialsLock, collectionLock, modelsLock,
               shaders, materials, sceneModels, nextId, gpuAllocs, shaderFilesOk,
               pc, task, uiPc, drawn>>

(***************************************************************************)
(* The asset files on disk.  A material of an .mtl file names up to three  *)
(* texture files, looked up in the folder of the .obj file.                *)
(***************************************************************************)
TextureFiles == {"a/wood.png"}

NoMaterialId == -1

ObjFile(path) ==
    CASE path = "a/cube.obj" ->
           [folder |-> "a",
            materials |-> << [name |-> "Material", diffuse_texture |-> "wood.png",
                              normal_texture |-> "", specular_texture |-> ""] >>,
            meshes |-> << 0 >>]
      [] path = "b/cube.obj" ->
           [folder |-> "b",
            materials |-> << [name |-> "Material", diffuse_texture |-> "",
                              normal_texture |-> "", specular_texture |-> ""] >>,
            meshes |-> << 0 >>]
      [] path = "c/two.obj" ->
           [folder |-> "c",
            materials |-> << [name |-> "Base", diffuse_texture |-> "",
                              normal_texture |-> "", specular_texture |-> ""],
                             [name |-> "Bad", diffuse_texture |-> "gone.png",
                              normal_texture |-> "", specular_texture |-> ""] >>,
            meshes |-> << 0, 1 >>]
      [] path = "d/bare.obj" ->
           [folder |-> "d",
            materials |-> << >>,
            meshes |-> << NoMaterialId >>]
      [] path = "e/pair.obj" ->
           [folder |-> "e",
            materials |-> << [name |-> "Pair", diffuse_texture |-> "",
                              normal_texture |-> "", specular_texture |-> ""] >>,
            meshes |-> << 0, 0 >>]
      [] path = "f/over.obj" ->
           [folder |-> "f",
            materials |-> << [name |-> "Only", diffuse_texture |-> "",
                              normal_texture |-> "", specular_texture |-> ""] >>,
            meshes |-> << 0, 1 >>]

ObjPaths == {"a/cube.obj", "b/cube.obj", "c/two.obj", "d/bare.obj"}

\* files with a mesh that names no material or one the file does not have,
\* and a sound one
MeshIdPaths == {"d/bare.obj", "e/pair.obj", "f/over.obj"}

\* a file of two meshes that loads, one whose texture is missing, one whose
\* mesh has no material
LockPaths == {"e/pair.obj", "c/two.obj", "d/bare.obj"}

(***************************************************************************)
(* std::sync::RwLock.                                                      *)
(***************************************************************************)
FreeLock == [writer |-> NoOwner, readers |-> {}, poisoned |-> FALSE]

CanRead(lock) == lock.writer = NoOwner

CanWriteUnguarded(lock) == TRUE

CanWrite(lock) == lock.writer = NoOwner /\ lock.readers = {}

AcquireRead(lock, p) == [lock EXCEPT !.readers = @ \cup {p}]

\* a read guard that is never dropped
KeepRead(lock, p) == lock

AcquireWrite(lock, p) == [lock EXCEPT !.writer = p]

ReleaseRead(lock, p) == [lock EXCEPT !.readers = @ \ {p}]

\* dropping a write guard; during a panic the lock is poisoned
ReleaseWrite(lock, panicking) ==
    [lock EXCEPT !.writer = NoOwner, !.poisoned = @ \/ panicking]

(***************************************************************************)
(* The cache keys of ObjModel::load.                                       *)
(***************************************************************************)
ShaderKey == "OUT_DIR/shader"

MaterialKey(name, i) == name \o "-" \o ToString(i)

EntryAlwaysVacant(cache, key) == TRUE

\* HashMap::entry: is the entry vacant?
EntryVacant(cache, key) == key \notin DOMAIN cache

\* VacantEntry::insert
Insert(cache, key, handle) == [k \in DOMAIN cache \cup {key} |->
                                 IF k = key THEN handle ELSE cache[k]]

TextureMissing(folder, path) ==
    path # "" /\ (folder \o "/" \o path) \notin TextureFiles

(***************************************************************************)
(* ObjModel::load, one task per loader.                                    *)
(***************************************************************************)
NoShader == [id |-> 0, by |-> 0]

IdleTask == [file |-> "", i |-> 0, keys |-> << >>, mats |-> << >>,
             shader |-> NoShader, vacant |-> FALSE, meshes |-> << >>, m |-> 0,
             result |-> "none"]

CurFile(l) == ObjFile(task[l].file)

CurMat(l) == CurFile(l).materials[task[l].i + 1]

CurKey(l) == MaterialKey(CurMat(l).name, task[l].i)

\* the texture paths of a material in the order load builds them
TexturePaths(mat) == << mat.diffuse_texture, mat.normal_texture, mat.specular_texture >>

TexturesFail(folder, mat) ==
    \E n \in 1..3 : TextureMissing(folder, TexturePaths(mat)[n])

\* textures created on the device before the first failing Texture::load
TexturesBuilt(folder, mat) ==
    Cardinality({n \in 1..3 :
        \A k \in 1..n : ~TextureMissing(folder, TexturePaths(mat)[k])})

\* the task ends (Err or panic): its scene read guard is dropped
Abort(l, how) ==
    /\ pc' = [pc EXCEPT ![l] = "done"]
    /\ task' = [task EXCEPT ![l].result = how]
    /\ sceneLock' = ReleaseRead(sceneLock, l)

\* scene.read().unwrap() and tobj::load_obj
LoadStartFrom(l, paths) ==
    /\ pc[l] = "idle"
    /\ CanRead(sceneLock)
    /\ \E path \in paths :
         IF sceneLock.poisoned
         THEN /\ pc' = [pc EXCEPT ![l] = "done"]
              /\ task' = [task EXCEPT ![l].result = "panic_poisoned", ![l].file = path]
              /\ UNCHANGED sceneLock
         ELSE /\ sceneLock' = AcquireRead(sceneLock, l)
              /\ task' = [task EXCEPT ![l].file = path]
              /\ pc' = [pc EXCEPT ![l] =
                          IF Len(ObjFile(path).materials) > 0 THEN "textures" ELSE "mesh"]
    /\ UNCHANGED <<shadersLock, materialsLock, collectionLock, modelsLock, shaders,
                   materials, sceneModels, nextId, gpuAllocs, shaderFilesOk, uiPc, drawn>>

LoadStart(l) == LoadStartFrom(l, ObjPaths)

\* the diffuse, normal and specular textures of material i
BuildTextures(l) ==
    /\ pc[l] = "textures"
    /\ gpuAllocs' = gpuAllocs + TexturesBuilt(CurFile(l).folder, CurMat(l))
    /\ IF TexturesFail(CurFile(l).folder, CurMat(l))
       THEN Abort(l, "err_texture")
       ELSE /\ pc' = [pc EXCEPT ![l] = "shader_entry"]
            /\ UNCHANGED <<task, sceneLock>>
    /\ UNCHANGED <<shadersLock, materialsLock, collectionLock, modelsLock, shaders,
                   materials, sceneModels, nextId, shaderFilesOk, uiPc, drawn>>

\* scene.shaders.write().unwrap().entry(shader_key)
ShaderEntry(l) ==
    /\ pc[l] = "shader_entry"
    /\ CanWrite(shadersLock)
    /\ IF shadersLock.poisoned
       THEN Abort(l, "panic_poisoned") /\ UNCHANGED shadersLock
       ELSE /\ shadersLock' = AcquireWrite(shadersLock, l)
            /\ task' = [task EXCEPT ![l].vacant = EntryVacant(shaders, ShaderKey)]
            /\ pc' = [pc EXCEPT ![l] = "shader_insert"]
            /\ UNCHANGED sceneLock
    /\ UNCHANGED <<materialsLock, collectionLock, modelsLock, shaders, materials,
                   sceneModels, nextId, gpuAllocs, shaderFilesOk, uiPc, drawn>>

\* Shader::new: the Arc allocated for the shader
NewShader(l, id) == [id |-> id, by |-> l]

\* .or_insert_with(|| Arc::new(Shader::new(..))).clone(); the guard is dropped
ShaderInsert(l) ==
    /\ pc[l] = "shader_insert"
    /\ IF task[l].vacant /\ ~shaderFilesOk
       THEN \* compile_shader: File::open(path).unwrap() panics under the write guard
            /\ Abort(l, "panic_shader")
            /\ shadersLock' = ReleaseWrite(shadersLock, TRUE)
            /\ UNCHANGED <<shaders, nextId, gpuAllocs>>
       ELSE /\ IF task[l].vacant
               THEN /\ shaders' = Insert(shaders, ShaderKey, NewShader(l, nextId))
                    /\ nextId' = nextId + 1
                    /\ gpuAllocs' = gpuAllocs + 3
               ELSE UNCHANGED <<shaders, nextId, gpuAllocs>>
            /\ task' = [task EXCEPT ![l].shader = shaders'[ShaderKey]]
            /\ shadersLock' = ReleaseWrite(shadersLock, FALSE)
            /\ pc' = [pc EXCEPT ![l] = "material_entry"]
            /\ UNCHANGED sceneLock
    /\ UNCHANGED <<materialsLock, collectionLock, modelsLock, materials, sceneModels,
                   shaderFilesOk, uiPc, drawn>>

\* Material::new: the Arc allocated for material i of the task's file
NewMaterial(l, id) ==
    [id |-> id, name |-> CurMat(l).name, index |-> task[l].i,
     source |-> task[l].file, shader |-> task[l].shader, by |-> l]

\* scene.materials.write().unwrap().entry(material_key.clone())
MaterialEntry(l) ==
    /\ pc[l] = "material_entry"
    /\ CanWrite(materialsLock)
    /\ IF materialsLock.poisoned
       THEN Abort(l, "panic_poisoned") /\ UNCHANGED materialsLock
       ELSE /\ materialsLock' = AcquireWrite(materialsLock, l)
            /\ task' = [task EXCEPT ![l].vacant = EntryVacant(materials, CurKey(l))]
            /\ pc' = [pc EXCEPT ![l] = "material_insert"]
            /\ UNCHANGED sceneLock
    /\ UNCHANGED <<shadersLock, collectionLock, modelsLock, shaders, materials,
                   sceneModels, nextId, gpuAllocs, shaderFilesOk, uiPc, drawn>>

\* .or_insert_with(|| Arc::new(Material::new(..))).clone(); materials.push;
\* material_keys.push; next material
MaterialInsert(l) ==
    /\ pc[l] = "material_insert"
    /\ IF task[l].vacant
       THEN /\ materials' = Insert(materials, CurKey(l), NewMaterial(l, nextId))
            /\ nextId' = nextId + 1
            /\ gpuAllocs' = gpuAllocs + 1
       ELSE UNCHANGED <<materials, nextId, gpuAllocs>>
    /\ task' = [task EXCEPT ![l].mats = Append(@, materials'[CurKey(l)]),
                            ![l].keys = Append(@, CurKey(l)),
                            ![l].i = @ + 1]
    /\ materialsLock' = ReleaseWrite(materialsLock, FALSE)
    /\ pc' = [pc EXCEPT ![l] =
                IF task[l].i + 1 < Len(CurFile(l).materials) THEN "textures" ELSE "mesh"]
    /\ UNCHANGED <<sceneLock, shadersLock, collectionLock, modelsLock, shaders,
                   sceneModels, shaderFilesOk, uiPc, drawn>>

\* one mesh: vertex and index buffers, then
\* scene.materials.read().unwrap().get(&material_keys[material_id.unwrap()]).unwrap()
\* a lookup that reports the missing material as a load error
MaterialLookupErr == "err_material_id"

\* material_id.unwrap(), material_keys[..] and get(..).unwrap() panic
MaterialLookupFails == "panic_material_id"

MeshLookup(l) ==
    /\ pc[l] = "mesh"
    /\ task[l].m < Len(CurFile(l).meshes)
    /\ CanRead(materialsLock)
    /\ LET mid == CurFile(l).meshes[task[l].m + 1] IN
       /\ gpuAllocs' = gpuAllocs + 2
       /\ IF materialsLock.poisoned
          THEN Abort(l, "panic_poisoned")
          ELSE IF \/ mid = NoMaterialId
                  \/ mid >= Len(task[l].keys)
                  \/ task[l].keys[mid + 1] \notin DOMAIN materials
          THEN Abort(l, MaterialLookupFails)
          ELSE /\ task' = [task EXCEPT
                             ![l].meshes = Append(@, materials[task[l].keys[mid + 1]]),
                             ![l].m = @ + 1]
               /\ UNCHANGED <<pc, sceneLock>>
    /\ UNCHANGED <<shadersLock, materialsLock, collectionLock, modelsLock, shaders,
                   materials, sceneModels, nextId, shaderFilesOk, uiPc, drawn>>

\* Ok(Self { meshes }): the scene read guard is dropped
LoadFinish(l) ==
    /\ pc[l] = "mesh"
    /\ task[l].m = Len(CurFile(l).meshes)
    /\ Abort(l, "ok")
    /\ UNCHANGED <<shadersLock, materialsLock, collectionLock, modelsLock, shaders,
                   materials, sceneModels, nextId, gpuAllocs, shaderFilesOk, uiPc, drawn>>

\* a caller that publishes the model while load is still filling its meshes
AddModelEarly(l) ==
    /\ pc[l] = "mesh"
    /\ sceneModels' = Append(sceneModels, task[l].meshes)
    /\ pc' = [pc EXCEPT ![l] = "added"]
    /\ task' = [task EXCEPT ![l].result = "ok"]
    /\ sceneLock' = ReleaseRead(sceneLock, l)
    /\ UNCHANGED <<shadersLock, materialsLock, collectionLock, modelsLock,
                   shaders, materials, nextId, gpuAllocs, shaderFilesOk, uiPc, drawn>>

\* the caller keeps the loaded model: scene.models.push(model)
AddModel(l) ==
    /\ pc[l] = "done"
    /\ task[l].result = "ok"
    /\ CanWrite(sceneLock)
    /\ ~sceneLock.poisoned
    /\ sceneModels' = Append(sceneModels, task[l].meshes)
    /\ pc' = [pc EXCEPT ![l] = "added"]
    /\ UNCHANGED <<sceneLock, shadersLock, materialsLock, collectionLock, modelsLock,
                   shaders, materials, nextId, gpuAllocs, shaderFilesOk, task, uiPc, drawn>>

(***************************************************************************)
(* The render thread: Scene::draw, then the inspection UI, MyApp::update.  *)
(***************************************************************************)
RECURSIVE Flatten(_)
Flatten(ss) == IF ss = << >> THEN << >> ELSE Head(ss) \o Flatten(Tail(ss))

\* RendererExt::draw: every mesh of every model with its material's bind group
DrawList(models) == [n \in 1..Len(Flatten(models)) |-> Flatten(models)[n].id]

SceneDraw ==
    /\ uiPc = "idle"
    /\ CanRead(sceneLock)
    /\ IF sceneLock.poisoned
       THEN uiPc' = "panicked" /\ UNCHANGED drawn
       ELSE uiPc' = "gui" /\ drawn' = DrawList(sceneModels)
    /\ UNCHANGED <<sceneLock, shadersLock, materialsLock, collectionLock, modelsLock,
                   shaders, materials, sceneModels, nextId, gpuAllocs, shaderFilesOk,
                   pc, task>>

\* "Compile shader" clicked: self.scene.write().unwrap()
UiCompileScene ==
    /\ uiPc = "gui"
    /\ CanWrite(sceneLock)
    /\ IF sceneLock.poisoned
       THEN uiPc' = "panicked" /\ UNCHANGED sceneLock
       ELSE uiPc' = "compile" /\ sceneLock' = AcquireWrite(sceneLock, UiThread)
    /\ UNCHANGED <<shadersLock, materialsLock, collectionLock, modelsLock, shaders,
                   materials, sceneModels, nextId, gpuAllocs, shaderFilesOk, pc, task,
                   drawn>>

\* .shaders.read().unwrap().iter(); both guards are dropped after the loop
UiCompileShaders ==
    /\ uiPc = "compile"
    /\ CanRead(shadersLock)
    /\ uiPc' = IF shadersLock.poisoned THEN "panicked" ELSE "models"
    /\ sceneLock' = ReleaseWrite(sceneLock, shadersLock.poisoned)
    /\ UNCHANGED <<shadersLock, materialsLock, collectionLock, modelsLock, shaders,
                   materials, sceneModels, nextId, gpuAllocs, shaderFilesOk, pc, task,
                   drawn>>

\* the button was not clicked
UiSkipCompile ==
    /\ uiPc = "gui"
    /\ uiPc' = "models"
    /\ UNCHANGED <<sceneLock, shadersLock, materialsLock, collectionLock, modelsLock,
                   shaders, materials, sceneModels, nextId, gpuAllocs, shaderFilesOk,
                   pc, task, drawn>>

\* self.collection.read().unwrap().models.read().unwrap().iter()
UiListModels ==
    /\ uiPc = "models"
    /\ CanRead(collectionLock)
    /\ CanRead(modelsLock)
    /\ uiPc' = IF collectionLock.poisoned \/ modelsLock.poisoned
               THEN "panicked" ELSE "count"
    /\ UNCHANGED <<sceneLock, shadersLock, materialsLock, collectionLock, modelsLock,
                   shaders, materials, sceneModels, nextId, gpuAllocs, shaderFilesOk,
                   pc, task, drawn>>

\* self.scene.read().unwrap()
UiSceneRead(from, to) ==
    /\ uiPc = from
    /\ CanRead(sceneLock)
    /\ IF sceneLock.poisoned
       THEN uiPc' = "panicked" /\ UNCHANGED sceneLock
       ELSE uiPc' = to /\ sceneLock' = AcquireRead(sceneLock, UiThread)
    /\ UNCHANGED <<shadersLock, materialsLock, collectionLock, modelsLock, shaders,
                   materials, sceneModels, nextId, gpuAllocs, shaderFilesOk, pc, task,
                   drawn>>

\* .materials.read().unwrap() and the len() or iter() over it; guards dropped
UiMaterialsRead(from, to) ==
    /\ uiPc = from
    /\ CanRead(materialsLock)
    /\ uiPc' = IF materialsLock.poisoned THEN "panicked" ELSE to
    /\ sceneLock' = ReleaseRead(sceneLock, UiThread)
    /\ UNCHANGED <<shadersLock, materialsLock, collectionLock, modelsLock, shaders,
                   materials, sceneModels, nextId, gpuAllocs, shaderFilesOk, pc, task,
                   drawn>>

\* the row count, the visible rows and the full list of MyApp::update
UiMaterials ==
    \/ UiSceneRead("count", "count_materials")
    \/ UiMaterialsRead("count_materials", "rows")
    \/ UiSceneRead("rows", "rows_materials")
    \/ UiMaterialsRead("rows_materials", "list")
    \/ UiSceneRead("list", "list_materials")
    \/ UiMaterialsRead("list_materials", "idle")

(***************************************************************************)
(* f32 arithmetic of the camera, as decimal fixed point: the integer n     *)
(* stands for n / One, seven decimal digits like an f32.  Products are     *)
(* formed from 4-digit halves so that no intermediate leaves 32 bits.      *)
(***************************************************************************)
One == 10000000

Abs(a) == IF a < 0 THEN -a ELSE a

Sgn(a) == IF a < 0 THEN -1 ELSE 1

\* a / n for a whole number n, rounded to nearest
FDivInt(a, n) == Sgn(a) * ((Abs(a) + n \div 2) \div n)

\* a * b, rounded to nearest
FMul(a, b) ==
    LET ah == Abs(a) \div 10000
        al == Abs(a) % 10000
        bh == Abs(b) \div 10000
        bl == Abs(b) % 10000
    IN  Sgn(a) * Sgn(b) *
          (ah * bh * 10 + (ah * bl + al * bh + (al * bl) \div 10000 + 500) \div 1000)

\* the first digits decimal digits of r / b, for 0 <= r < b
RECURSIVE LongDiv(_, _, _, _)
LongDiv(q, r, b, digits) ==
    IF digits = 0 THEN q
    ELSE LongDiv(q * 10 + (r * 10) \div b, (r * 10) % b, b, digits - 1)

\* a / b, b # 0
FDiv(a, b) ==
    Sgn(a) * Sgn(b) *
       ((Abs(a) \div Abs(b)) * One + LongDiv(0, Abs(a) % Abs(b), Abs(b), 7))

\* m * m <= s, compared exactly: both sides as two digits to the base 10^8
SquareLeq(m, s) ==
    LET mh == m \div 10000
        ml == m % 10000
        t  == 2 * mh * ml
        lo == (t % 10000) * 10000 + ml * ml
        hi == mh * mh + t \div 10000 + lo \div 100000000
    IN  \/ hi < s \div 10
        \/ hi = s \div 10 /\ lo % 100000000 <= (s % 10) * 10000000

\* the largest m in lo..hi with m * m <= s
RECURSIVE SqrtSearch(_, _, _)
SqrtSearch(lo, hi, s) ==
    IF lo >= hi THEN lo
    ELSE LET mid == (lo + hi + 1) \div 2
         IN  IF SquareLeq(mid, s) THEN SqrtSearch(mid, hi, s)
                                  ELSE SqrtSearch(lo, mid - 1, s)

\* f32::sqrt, for results below 14.6
FSqrt(s) == SqrtSearch(0, 146000000, s)

\* the power series of sin and cos: term is the last term added, of degree k
RECURSIVE Series(_, _, _, _)
Series(term, x2, k, last) ==
    IF k >= last THEN term
    ELSE term + Series(FDivInt(-FMul(term, x2), (k + 1) * (k + 2)), x2, k + 2, last)

\* f32::sin and f32::cos, for |x| < 1
Sin(x) == Series(x, FMul(x, x), 1, 11)

Cos(x) == Series(One, FMul(x, x), 0, 12)

Tan(x) == FDiv(Sin(x), Cos(x))

(***************************************************************************)
(* cgmath::Vector3, Point3 (triples), Vector4 (quadruples) and Matrix3     *)
(* (a triple of columns).                                                  *)
(***************************************************************************)
VAdd(a, b) == << a[1] + b[1], a[2] + b[2], a[3] + b[3] >>

VSub(a, b) == << a[1] - b[1], a[2] - b[2], a[3] - b[3] >>

VNeg(a) == << -a[1], -a[2], -a[3] >>

\* vector * scalar
VScale(a, s) == << FMul(a[1], s), FMul(a[2], s), FMul(a[3], s) >>

\* vector * whole number, vector / whole number
VMulInt(a, n) == << a[1] * n, a[2] * n, a[3] * n >>

VDivInt(a, n) == << FDivInt(a[1], n), FDivInt(a[2], n), FDivInt(a[3], n) >>

VDot(a, b) == FMul(a[1], b[1]) + FMul(a[2], b[2]) + FMul(a[3], b[3])

VCross(a, b) == << FMul(a[2], b[3]) - FMul(a[3], b[2]),
                   FMul(a[3], b[1]) - FMul(a[1], b[3]),
                   FMul(a[1], b[2]) - FMul(a[2], b[1]) >>

\* InnerSpace::magnitude
Magnitude(a) == FSqrt(VDot(a, a))

ZeroVec == << 0, 0, 0 >>

\* InnerSpace::normalize: self * (1 / magnitude); of a zero vector it is NaN
Normalize(a) == VScale(a, FDiv(One, Magnitude(a)))

\* Matrix3 * Vector3
MatVec(m, v) == VAdd(VAdd(VScale(m[1], v[1]), VScale(m[2], v[2])), VScale(m[3], v[3]))

(***************************************************************************)
(* camera.rs: the quaternion helpers.                                      *)
(***************************************************************************)
QuartanionMatrixSlip(v) ==
    LET x == v[1]  y == v[2]  z == v[3]  w == v[4]
        ww == FMul(w, w)  xx == FMul(x, x)  yy == FMul(y, y)  zz == FMul(z, z)
        xy == FMul(x, y)  xz == FMul(x, z)  xw == FMul(x, w)
        yz == FMul(y, z)  yw == FMul(y, w)  zw == FMul(z, w)
    IN  << << ww + xx - yy - zz, 2 * (xy - zw), 2 * (xz + yw) >>,
           << 2 * (xy + zw), ww - xx + yy - zz, 2 * (yz - xw) >>,
           << 2 * (xz + yw), 2 * (yz + xw), ww - xx - yy + zz >> >>

QuartanionMatrix(v) ==
    LET x == v[1]  y == v[2]  z == v[3]  w == v[4]
        ww == FMul(w, w)  xx == FMul(x, x)  yy == FMul(y, y)  zz == FMul(z, z)
        xy == FMul(x, y)  xz == FMul(x, z)  xw == FMul(x, w)
        yz == FMul(y, z)  yw == FMul(y, w)  zw == FMul(z, w)
    IN  << << ww + xx - yy - zz, 2 * (xy - zw), 2 * (xz + yw) >>,
           << 2 * (xy + zw), ww - xx + yy - zz, 2 * (yz - xw) >>,
           << 2 * (xz - yw), 2 * (yz + xw), ww - xx - yy + zz >> >>

RotateQuartanion(t, n) ==
    LET s == VScale(n, Sin(FDivInt(t, 2)))
        c == Cos(FDivInt(t, 2))
    IN  << s[1], s[2], s[3], c >>

MultQuartanion(a, b) ==
    LET x == a[1]  y == a[2]  z == a[3]  w == a[4]
    IN  << FMul(w, b[1]) + FMul(z, b[2]) - FMul(y, b[3]) - FMul(x, b[4]),
           FMul(w, b[2]) + FMul(x, b[3]) - FMul(z, b[1]) - FMul(y, b[4]),
           FMul(y, b[1]) - FMul(x, b[2]) + FMul(w, b[3]) - FMul(z, b[4]),
           FMul(x, b[1]) + FMul(y, b[2]) + FMul(z, b[3]) + FMul(w, b[4]) >>

(***************************************************************************)
(* camera.rs: Camera and CameraController.                                 *)
(*                                                                         *)
(* cam.nan records that a component of the camera became NaN or infinite:  *)
(* normalize() of a zero-length vector divides by zero, and every value    *)
(* computed from the result is NaN again.                                  *)
(***************************************************************************)
VARIABLES
    cam,        \* the camera
    ctl,        \* the controller
    nEvents,    \* events processed
    nUpdates,   \* calls of update_camera
    scrollSum   \* history: the wheel deltas received since the last update

camVars == << cam, ctl, nEvents, nUpdates, scrollSum >>

MaxEvents == 2
MaxUpdates == 2
MaxYawEvents == 3
MaxYawSteps == 6
MaxPanEvents == 4
MaxPanUpdates == 2

\* the window's PhysicalSize, width and height
WindowSize == << 800, 600 >>
Fovy == 7853982
YawAngle == 500000
PitchSensitivity == 500000
MoveSensitivity == 30000
DragSensitivity == 30000

UnitY == << 0, One, 0 >>

CameraNew ==
    [eye |-> << 3 * One, 4 * One, -6 * One >>,
     target |-> ZeroVec,
     up |-> UnitY,
     nan |-> FALSE]

ControllerNew ==
    [is_up_pressed |-> FALSE, is_down_pressed |-> FALSE,
     is_move_left_pressed |-> FALSE, is_move_right_pressed |-> FALSE,
     is_move_up_pressed |-> FALSE, is_move_down_pressed |-> FALSE,
     is_forward_pressed |-> FALSE, is_backward_pressed |-> FALSE,
     is_left_pressed |-> FALSE, is_right_pressed |-> FALSE,
     is_middle_pressed |-> FALSE, is_wheel_scrolled |-> FALSE,
     is_shift_pressed |-> FALSE, is_camera_front_pressed |-> FALSE,
     is_camera_right_pressed |-> FALSE, is_camera_top_pressed |-> FALSE,
     scroll |-> 0,
     cursor_position_before |-> << 0, 0 >>,
     cursor_position_current |-> << 0, 0 >>,
     size |-> WindowSize]

\* the flag each key of process_events sets
KeyField ==
    [W |-> "is_forward_pressed", S |-> "is_backward_pressed",
     A |-> "is_move_left_pressed", D |-> "is_move_right_pressed",
     E |-> "is_move_up_pressed", Q |-> "is_move_down_pressed",
     LShift |-> "is_shift_pressed",
     Numpad1 |-> "is_camera_front_pressed", Numpad2 |-> "is_down_pressed",
     Numpad4 |-> "is_left_pressed", Numpad3 |-> "is_camera_right_pressed",
     Numpad6 |-> "is_right_pressed", Numpad7 |-> "is_camera_top_pressed",
     Numpad8 |-> "is_up_pressed"]

Keys == DOMAIN KeyField

YawKeys == {"Numpad4", "Numpad6"}

PanKeys == {"LShift"}

PanScrollLines == {One, -One}

\* the wheel deltas and cursor positions the events carry
ScrollLines == {One, -One, 10 * One}

CursorPositions == {<< 0, 0 >>, << 4, 0 >>, << 0, 4 >>}

(* process_events.  An event that leaves the controller as it is would be  *)
(* a stuttering step, so each action is enabled when it changes a field.   *)
KeyboardInput(keycode, is_pressed) ==
    /\ ctl[KeyField[keycode]] # is_pressed
    /\ ctl' = [ctl EXCEPT ![KeyField[keycode]] = is_pressed,
                          !.size = WindowSize]
    /\ nEvents' = nEvents + 1
    /\ UNCHANGED << cam, nUpdates, scrollSum >>
    /\ UNCHANGED cacheVars

MouseWheel(vertical) ==
    /\ ~(ctl.is_wheel_scrolled /\ ctl.scroll = vertical)
    /\ ctl' = [ctl EXCEPT !.scroll = vertical,
                          !.is_wheel_scrolled = TRUE,
                          !.size = WindowSize]
    /\ nEvents' = nEvents + 1
    /\ scrollSum' = scrollSum + vertical
    /\ UNCHANGED << cam, nUpdates >>
    /\ UNCHANGED cacheVars

CursorMoved(position) ==
    /\ ctl.cursor_position_current # position
    /\ ctl' = [ctl EXCEPT !.cursor_position_current = position,
                          !.size = WindowSize]
    /\ nEvents' = nEvents + 1
    /\ UNCHANGED << cam, nUpdates, scrollSum >>
    /\ UNCHANGED cacheVars

MouseInput(is_pressed) ==
    /\ ctl.is_middle_pressed # is_pressed
    /\ ctl' = [ctl EXCEPT !.is_middle_pressed = is_pressed,
                          !.size = WindowSize]
    /\ nEvents' = nEvents + 1
    /\ UNCHANGED << cam, nUpdates, scrollSum >>
    /\ UNCHANGED cacheVars

(***************************************************************************)
(* update_camera, one operator per block of the function, in its order.    *)
(***************************************************************************)
NaN(c) == [c EXCEPT !.nan = TRUE]

\* camera.eye += forward_norm * self.scroll: the line the dolly does not run
DollyByNorm(c, forward, scroll) ==
    IF Magnitude(forward) = 0 THEN NaN(c)
    ELSE [c EXCEPT !.eye = VAdd(c.eye, VScale(Normalize(forward), scroll))]

\* camera.eye += forward / 10. * self.scroll
Dolly(c, forward, scroll) ==
    [c EXCEPT !.eye = VAdd(c.eye, VScale(VDivInt(forward, 10), scroll))]

\* the two wheel blocks: the first clears the flag the second tests
Wheel(c, k, forward) ==
    IF k.is_wheel_scrolled /\ k.scroll >= 0 THEN Dolly(c, forward, k.scroll)
    ELSE IF k.is_wheel_scrolled /\ k.scroll < 0 THEN Dolly(c, forward, k.scroll)
    ELSE c

\* eye = target - rotate * forward; up = (rotate * up).normalize()
Orbit(c, rotate) ==
    LET forward == VSub(c.target, c.eye)
    IN  [c EXCEPT !.eye = VSub(c.target, MatVec(rotate, forward)),
                  !.up = Normalize(MatVec(rotate, c.up))]

Yaw(c, angle) == Orbit(c, QuartanionMatrix(RotateQuartanion(angle, UnitY)))

Pitch(c, angle) ==
    LET forward == VSub(c.target, c.eye)
    IN  IF Magnitude(forward) = 0 THEN NaN(c)
        ELSE LET right == VCross(Normalize(forward), c.up)
             IN  Orbit(c, QuartanionMatrix(RotateQuartanion(angle, right)))

\* the three view snaps
Snap(c, eye, up) == [c EXCEPT !.eye = eye, !.target = ZeroVec, !.up = up]

CameraFront(c) ==
    Snap(c, << 0, 0, -Magnitude(VSub(c.target, c.eye)) >>, << 0, One, 0 >>)

CameraRight(c) ==
    Snap(c, << -Magnitude(VSub(c.target, c.eye)), 0, 0 >>, << 0, 2 * One, 0 >>)

CameraTop(c) ==
    Snap(c, << 0, Magnitude(VSub(c.target, c.eye)), 0 >>, << 0, 0, One >>)

\* camera.eye += d; camera.target += d
Translate(c, d) == [c EXCEPT !.eye = VAdd(c.eye, d), !.target = VAdd(c.target, d)]

\* W and S (sign -1): along forward, the vector taken on entry
MoveForward(c, forward, sign) ==
    IF Magnitude(forward) = 0 THEN NaN(c)
    ELSE Translate(c, VScale(VScale(VMulInt(Normalize(forward), sign),
                                    Magnitude(forward)), MoveSensitivity))

\* D and A (sign -1): along right
MoveRight(c, forward, sign) ==
    IF Magnitude(forward) = 0 THEN NaN(c)
    ELSE LET right == VCross(Normalize(forward), c.up)
         IN  Translate(c, VScale(VScale(VMulInt(right, sign),
                                        Magnitude(forward)), MoveSensitivity))

\* E and Q (sign -1): along up
MoveUp(c, forward, sign) ==
    Translate(c, VScale(VScale(VMulInt(c.up, sign),
                               Magnitude(forward)), MoveSensitivity))

\* v * 2. * mag * diff / extent * tan(fovy)
PanOffset(v, mag, diff, extent) ==
    VScale(VDivInt(VMulInt(VScale(VMulInt(v, 2), mag), diff), extent), Tan(Fovy))

\* a pan that forgets the two lines that move the target
PanEyeOnly(c, k, forward, diff) ==
    IF Magnitude(forward) = 0 THEN NaN(c)
    ELSE LET right == VCross(Normalize(forward), c.up)
             mag == Magnitude(forward)
             dx == PanOffset(VNeg(right), mag, diff[1], k.size[1])
             dy == PanOffset(c.up, mag, diff[2], k.size[2])
         IN  [c EXCEPT !.eye = VAdd(VAdd(c.eye, dx), dy)]

\* middle button with shift
Pan(c, k, forward, diff) ==
    IF Magnitude(forward) = 0 THEN NaN(c)
    ELSE LET right == VCross(Normalize(forward), c.up)
             mag == Magnitude(forward)
             dx == PanOffset(VNeg(right), mag, diff[1], k.size[1])
             dy == PanOffset(c.up, mag, diff[2], k.size[2])
         IN  [c EXCEPT !.eye = VAdd(VAdd(c.eye, dx), dy),
                       !.target = VAdd(VAdd(c.target, dx), dy)]

\* middle button without shift
Drag(c, diff) ==
    LET forward == VSub(c.target, c.eye)
    IN  IF Magnitude(forward) = 0 THEN NaN(c)
        ELSE LET right == VCross(Normalize(forward), c.up)
                 a == RotateQuartanion(-DragSensitivity * diff[2], right)
                 b == RotateQuartanion(DragSensitivity * diff[1], UnitY)
             IN  Orbit(c, QuartanionMatrix(MultQuartanion(a, b)))

Middle(c, k, forward) ==
    LET cursor_diff == << k.cursor_position_current[1] - k.cursor_position_before[1],
                          k.cursor_position_current[2] - k.cursor_position_before[2] >>
    IN  IF k.is_shift_pressed THEN Pan(c, k, forward, cursor_diff)
                              ELSE Drag(c, cursor_diff)

\* a block runs when its flag is set; once a component is NaN it stays NaN
When(flag, c, after) == IF flag /\ ~c.nan THEN after ELSE c

\* the blocks of update_camera, each with its test
WheelBlock(c, k, forward) == When(k.is_wheel_scrolled, c, Wheel(c, k, forward))

YawBlock(c, pressed, angle) == When(pressed, c, Yaw(c, angle))

PitchBlock(c, pressed, angle) == When(pressed, c, Pitch(c, angle))

CameraFrontBlock(c, pressed) == When(pressed, c, CameraFront(c))

CameraRightBlock(c, pressed) == When(pressed, c, CameraRight(c))

CameraTopBlock(c, pressed) == When(pressed, c, CameraTop(c))

MoveForwardBlock(c, pressed, forward, sign) == When(pressed, c, MoveForward(c, forward, sign))

MoveRightBlock(c, pressed, forward, sign) == When(pressed, c, MoveRight(c, forward, sign))

MoveUpBlock(c, pressed, forward, sign) == When(pressed, c, MoveUp(c, forward, sign))

MiddleBlock(c, k, forward) == When(k.is_middle_pressed, c, Middle(c, k, forward))

\* the camera update_camera leaves
UpdatedCamera(c, k) ==
    LET forward == VSub(c.target, c.eye)
        c1  == WheelBlock(c, k, forward)
        c2  == YawBlock(c1, k.is_right_pressed, -YawAngle)
        c3  == YawBlock(c2, k.is_left_pressed, YawAngle)
        c4  == PitchBlock(c3, k.is_up_pressed, PitchSensitivity)
        c5  == PitchBlock(c4, k.is_down_pressed, -PitchSensitivity)
        c6  == CameraFrontBlock(c5, k.is_camera_front_pressed)
        c7  == CameraRightBlock(c6, k.is_camera_right_pressed)
        c8  == CameraTopBlock(c7, k.is_camera_top_pressed)
        c9  == MoveForwardBlock(c8, k.is_forward_pressed, forward, 1)
        c10 == MoveForwardBlock(c9, k.is_backward_pressed, forward, -1)
        c11 == MoveRightBlock(c10, k.is_move_left_pressed, forward, -1)
        c12 == MoveRightBlock(c11, k.is_move_right_pressed, forward, 1)
        c13 == MoveUpBlock(c12, k.is_move_up_pressed, forward, 1)
        c14 == MoveUpBlock(c13, k.is_move_down_pressed, forward, -1)
    IN  MiddleBlock(c14, k, forward)

\* the controller update_camera leaves
UpdatedController(k) ==
    [k EXCEPT !.is_wheel_scrolled = FALSE,
              !.scroll = IF k.is_wheel_scrolled THEN 0 ELSE k.scroll,
              !.cursor_position_before = k.cursor_position_current]

UpdateCamera ==
    /\ cam' = UpdatedCamera(cam, ctl)
    /\ ctl' = UpdatedController(ctl)
    /\ nUpdates' = nUpdates + 1
    /\ scrollSum' = 0
    /\ UNCHANGED nEvents
    /\ UNCHANGED cacheVars

(***************************************************************************)
(* state.rs: the frame driver.  winit runs handle_event once per event, in *)
(* iterations of its loop: the window's events, MainEventsCleared,         *)
(* RedrawRequested when a redraw was requested, RedrawEventsCleared.       *)
(***************************************************************************)
VARIABLES
    window,             \* inner size of the window, as the system has it
    pending,            \* window events not yet handed to handle_event
    phase,              \* where the current iteration of the loop is
    redrawRequested,    \* a RedrawRequested will be emitted
    controlFlow,        \* *control_flow
    gfx,                \* State: size, sc_desc, swap_chain, projection, depth_texture
    uniforms,           \* what the uniform buffer was last written from
    lightDeg,           \* the light's rotation about the y axis, in degrees
    panic,              \* the call that panicked, "none" while running
    submitted,          \* the passes of the command buffer submitted last
    lastPass,           \* the attachments of the scene pass recorded last
    updatesSinceRender, \* calls of update since the last call of render
    nRenders, nLoops, nOs

frameVars == << window, pending, phase, redrawRequested, controlFlow, gfx, uniforms,
                lightDeg, panic, submitted, lastPass, updatesSinceRender,
                nRenders, nLoops, nOs >>

MaxLoops == 3
MaxOs == 2

\* the sizes the system gives the window; a minimized window has size 0 x 0
Sizes == {<< 800, 600 >>, << 1920, 1080 >>, << 0, 0 >>}

FrameKeys == {"Numpad4", "Escape"}

\* an f32 that is NaN or infinite
NonFinite == -1

\* width as f32 / height as f32
Ratio(width, height) ==
    IF height = 0 THEN NonFinite
    ELSE (width \div height) * One + LongDiv(0, width % height, height, 7)

NoEvent == [type |-> "None", size |-> << 0, 0 >>, key |-> "", pressed |-> FALSE]

Resized(new_size) == [NoEvent EXCEPT !.type = "Resized", !.size = new_size]

KeyEvent(key, pressed) ==
    [NoEvent EXCEPT !.type = "KeyboardInput", !.key = key, !.pressed = pressed]

CloseRequested == [NoEvent EXCEPT !.type = "CloseRequested"]

\* State::new: everything is configured for the window's size
GfxNew ==
    [size |-> WindowSize,
     sc_desc |-> WindowSize,
     swap_chain |-> WindowSize,
     projection_aspect |-> Ratio(WindowSize[1], WindowSize[2]),
     depth_texture |-> WindowSize]

\* a resize that keeps the old depth texture
ResizeKeepsDepth(g, new_size) ==
    [g EXCEPT !.size = new_size,
              !.sc_desc = new_size,
              !.projection_aspect = Ratio(new_size[1], new_size[2]),
              !.swap_chain = new_size]

\* a resize that keeps the old swap chain
ResizeKeepsSwapChain(g, new_size) ==
    [g EXCEPT !.size = new_size,
              !.sc_desc = new_size,
              !.projection_aspect = Ratio(new_size[1], new_size[2]),
              !.depth_texture = new_size]

\* State::resize
Resize(g, new_size) ==
    [g EXCEPT !.size = new_size,
              !.sc_desc = new_size,
              !.projection_aspect = Ratio(new_size[1], new_size[2]),
              !.depth_texture = new_size,
              !.swap_chain = new_size]

\* creating a texture or a swap chain of no extent is a validation error,
\* which the device reports by panicking or lets pass, as the backend has it
ResizeMayPanic(new_size) == new_size[1] = 0 \/ new_size[2] = 0

\* Uniforms::update_view_proj: the view and the projection the matrix is of
ViewProj(c, g) == [eye |-> c.eye, target |-> c.target, up |-> c.up,
                   aspect |-> g.projection_aspect]

LoopRuns == phase \notin {"exited", "panicked"}

Panic(call) ==
    /\ phase' = "panicked"
    /\ panic' = call

(* The system: it resizes the window, presses keys, asks for the window to  *)
(* be closed or redrawn.  The events wait until the loop delivers them.     *)
OsResize(new_size) ==
    /\ LoopRuns /\ nOs < MaxOs
    /\ window # new_size
    /\ window' = new_size
    /\ pending' = Append(pending, Resized(new_size))
    /\ nOs' = nOs + 1
    /\ UNCHANGED << phase, redrawRequested, controlFlow, gfx, uniforms, lightDeg, panic,
                    submitted, lastPass, updatesSinceRender, nRenders, nLoops >>
    /\ UNCHANGED << cacheVars, camVars >>

OsInput(event) ==
    /\ LoopRuns /\ nOs < MaxOs
    /\ pending' = Append(pending, event)
    /\ nOs' = nOs + 1
    /\ UNCHANGED << window, phase, redrawRequested, controlFlow, gfx, uniforms, lightDeg,
                    panic, submitted, lastPass, updatesSinceRender, nRenders, nLoops >>
    /\ UNCHANGED << cacheVars, camVars >>

OsRedraw ==
    /\ LoopRuns /\ nOs < MaxOs
    /\ ~redrawRequested
    /\ redrawRequested' = TRUE
    /\ nOs' = nOs + 1
    /\ UNCHANGED << window, pending, phase, controlFlow, gfx, uniforms, lightDeg, panic,
                    submitted, lastPass, updatesSinceRender, nRenders, nLoops >>
    /\ UNCHANGED << cacheVars, camVars >>

(* handle_event, WindowEvent: input() first, the match when it says false.  *)
\* a key the camera controller knows: process_events sets its flag
InputKey ==
    /\ phase = "events" /\ nLoops < MaxLoops /\ pending # << >>
    /\ Head(pending).type = "KeyboardInput"
    /\ Head(pending).key \in Keys
    /\ ctl' = [ctl EXCEPT ![KeyField[Head(pending).key]] = Head(pending).pressed]
    /\ pending' = Tail(pending)
    /\ UNCHANGED << window, phase, redrawRequested, controlFlow, gfx, uniforms, lightDeg,
                    panic, submitted, lastPass, updatesSinceRender, nRenders, nLoops, nOs >>
    /\ UNCHANGED << cacheVars, cam, nEvents, nUpdates, scrollSum >>

\* CloseRequested, or Escape pressed; a released Escape falls through
ExitEvent ==
    /\ phase = "events" /\ nLoops < MaxLoops /\ pending # << >>
    /\ \/ Head(pending).type = "CloseRequested"
       \/ Head(pending).type = "KeyboardInput" /\ Head(pending).key = "Escape"
    /\ controlFlow' = IF Head(pending).type = "CloseRequested" \/ Head(pending).pressed
                      THEN "Exit" ELSE controlFlow
    /\ pending' = Tail(pending)
    /\ UNCHANGED << window, phase, redrawRequested, gfx, uniforms, lightDeg,
                    panic, submitted, lastPass, updatesSinceRender, nRenders, nLoops, nOs >>
    /\ UNCHANGED << cacheVars, camVars >>

\* Resized: State::resize returns
ResizedEvent ==
    /\ phase = "events" /\ nLoops < MaxLoops /\ pending # << >>
    /\ Head(pending).type = "Resized"
    /\ gfx' = Resize(gfx, Head(pending).size)
    /\ pending' = Tail(pending)
    /\ UNCHANGED << window, phase, redrawRequested, controlFlow, uniforms, lightDeg,
                    panic, submitted, lastPass, updatesSinceRender, nRenders, nLoops, nOs >>
    /\ UNCHANGED << cacheVars, camVars >>

\* the stores of State::resize that come before it creates the depth texture
ResizeBegun(g, new_size) ==
    [g EXCEPT !.size = new_size,
              !.sc_desc = new_size,
              !.projection_aspect = Ratio(new_size[1], new_size[2])]

\* Resized: State::resize panics in the device, after it has stored the
\* size and the aspect
ResizedPanics ==
    /\ phase = "events" /\ nLoops < MaxLoops /\ pending # << >>
    /\ Head(pending).type = "Resized"
    /\ ResizeMayPanic(Head(pending).size)
    /\ Panic("resize")
    /\ gfx' = ResizeBegun(gfx, Head(pending).size)
    /\ pending' = Tail(pending)
    /\ UNCHANGED << window, redrawRequested, controlFlow, uniforms, lightDeg,
                    submitted, lastPass, updatesSinceRender, nRenders, nLoops, nOs >>
    /\ UNCHANGED << cacheVars, camVars >>

\* the window's events of this iteration have all been handled
EventsDone ==
    /\ phase = "events" /\ nLoops < MaxLoops /\ pending = << >>
    /\ phase' = "main"
    /\ UNCHANGED << window, pending, redrawRequested, controlFlow, gfx, uniforms, lightDeg,
                    panic, submitted, lastPass, updatesSinceRender, nRenders, nLoops, nOs >>
    /\ UNCHANGED << cacheVars, camVars >>

(* handle_event, MainEventsCleared: State::update.                          *)
\* an update that leaves the uniform buffer as it is
UniformsKept(c, g) == uniforms

\* update_view_proj and queue.write_buffer of the whole Uniforms
UniformsWritten(c, g) == ViewProj(c, g)

MainEventsCleared ==
    /\ phase = "main"
    /\ cam' = UpdatedCamera(cam, ctl)
    /\ ctl' = UpdatedController(ctl)
    /\ nUpdates' = nUpdates + 1
    /\ uniforms' = UniformsWritten(cam', gfx)
    /\ lightDeg' = (lightDeg + 1) % 360
    /\ updatesSinceRender' = updatesSinceRender + 1
    /\ phase' = IF redrawRequested THEN "redraw" ELSE "cleared"
    /\ UNCHANGED << window, pending, redrawRequested, controlFlow, gfx,
                    panic, submitted, lastPass, nRenders, nLoops, nOs >>
    /\ scrollSum' = 0
    /\ UNCHANGED << cacheVars, nEvents >>

(* handle_event, RedrawRequested: State::render.                            *)
ScenePass == [pass |-> "scene", color |-> "Clear", depth |-> "Clear",
              draws |-> << "draw_model", "draw_light_model" >>]

UiPass == [pass |-> "ui", color |-> "Load", depth |-> "None", draws |-> << "egui" >>]

\* a render that records the UI before the scene
UiFirst(ui_ok) == IF ui_ok THEN << UiPass, ScenePass >> ELSE << ScenePass >>

\* the passes in the encoder when render submits it; gui.draw returns a
\* Result that render drops, so an Err leaves the UI pass out
RecordPasses(ui_ok) == IF ui_ok THEN << ScenePass, UiPass >> ELSE << ScenePass >>

\* get_current_frame() returns Err: expect() panics
RenderPanics ==
    /\ phase = "redraw"
    /\ Panic("get_current_frame")
    /\ UNCHANGED << window, pending, redrawRequested, controlFlow, gfx, uniforms, lightDeg,
                    submitted, lastPass, updatesSinceRender, nRenders, nLoops, nOs >>
    /\ UNCHANGED << cacheVars, camVars >>

Render ==
    /\ phase = "redraw"
    /\ lastPass' = [frame |-> gfx.swap_chain, depth |-> gfx.depth_texture]
    /\ \E ui_ok \in BOOLEAN : submitted' = RecordPasses(ui_ok)
    /\ nRenders' = nRenders + 1
    /\ updatesSinceRender' = 0
    /\ redrawRequested' = FALSE
    /\ phase' = "cleared"
    /\ UNCHANGED << window, pending, controlFlow, gfx, uniforms, lightDeg, panic, nLoops, nOs >>
    /\ UNCHANGED << cacheVars, camVars >>

\* the RedrawEventsCleared arm: *control_flow = WaitUntil(..) when no frame
\* is due, whatever the value was
FramePacing(flow, due) == IF due THEN flow ELSE "WaitUntil"

\* an event loop that takes over what the handler wrote
TakeWritten(before, written) == written

\* the control_flow handed to the handler belongs to winit's loop: once it
\* is Exit the loop passes a scratch value and stays at Exit
StickyExit(before, written) == IF before = "Exit" THEN "Exit" ELSE written

(* handle_event, RedrawEventsCleared: a frame is due when 1/60 s has passed *)
(* since the last request; the loop then starts its next iteration.         *)
RedrawEventsCleared ==
    /\ phase = "cleared"
    /\ \E due \in BOOLEAN :
         /\ redrawRequested' = (redrawRequested \/ due)
         /\ controlFlow' = StickyExit(controlFlow, FramePacing(controlFlow, due))
    /\ phase' = IF controlFlow = "Exit" THEN "exited" ELSE "events"
    /\ nLoops' = nLoops + 1
    /\ UNCHANGED << window, pending, gfx, uniforms, lightDeg, panic, submitted, lastPass,
                    updatesSinceRender, nRenders, nOs >>
    /\ UNCHANGED << cacheVars, camVars >>

(***************************************************************************)
(* light.rs: Lights::new, the shadow texture and one shadow view per light. *)
(***************************************************************************)
VARIABLES
    lights,             \* the vector handed to Lights::new, changed in place
    lightsPc,           \* where the call stands
    shadow_texture,     \* the texture's extent, NoTexture before it is created
    light_storage_buf,  \* the storage buffer's size in bytes, 0 before
    viewErrors,         \* validation errors the device has recorded
    nSceneUpdates       \* calls of Scene::update so far

lightVars == << lights, lightsPc, shadow_texture, light_storage_buf, viewErrors,
                nSceneUpdates >>

MaxLightsIn == 4

MAX_LIGHTS == 2

\* size_of::<LightRaw>(): a 4x4 matrix and two 4-vectors of f32
LightRawSize == 96

SHADOW_SIZE == [width |-> 1, height |-> 1, depth_or_array_layers |-> 1]

NoTexture == [width |-> 0, height |-> 0, depth_or_array_layers |-> 0]

NoView == [base_array_layer |-> -1, array_layer_count |-> 0, valid |-> FALSE]

\* Light::new leaves shadow_view at None
LightColors == {"white", "red"}

\* Scene::new puts its light at (200, 200, 2)
LightPosition == << 200 * One, 200 * One, 2 * One >>

\* Light::to_raw: the position and the colour get a fourth component 1.0;
\* the matrix is perspective * look_at_rh(position, origin, unit_z), kept
\* here as the position it is computed from
ToRaw(light) ==
    [projection |-> [eye |-> light.position, center |-> ZeroVec],
     position |-> << light.position[1], light.position[2], light.position[3], One >>,
     color |-> << light.color, One >>]

\* LightObject::new: the buffer starts with the raw record of the light
LightObjectNew(color) ==
    LET light == [color |-> color, position |-> LightPosition, shadow_view |-> NoView]
    IN  [color |-> color, position |-> LightPosition, shadow_view |-> NoView,
         buffer |-> ToRaw(light)]

RECURSIVE LightVectorsOf(_)
LightVectorsOf(n) ==
    IF n = 0 THEN { << >> }
    ELSE { Append(v, LightObjectNew(color)) : v \in LightVectorsOf(n - 1), color \in LightColors }

LightVectors == UNION { LightVectorsOf(n) : n \in 0..MaxLightsIn }

\* the validation of Texture::create_view: the layers the view selects
\* have to lie inside the texture
ViewInRange(texture, base_array_layer, array_layer_count) ==
    base_array_layer + array_layer_count <= texture.depth_or_array_layers

\* shadow_texture.create_view with base_array_layer: i, array_layer_count: 1
CreateView(texture, i) ==
    [base_array_layer |-> i, array_layer_count |-> 1, valid |-> ViewInRange(texture, i, 1)]

\* the lights whose shadow view has been made so far
ViewsMade == Cardinality({ n \in 1..Len(lights) : lights[n].shadow_view # NoView })

\* Lights::new is called: the shadow texture, its default view and sampler
LightsNew(input) ==
    /\ lightsPc = "idle"
    /\ lights' = input
    /\ shadow_texture' = SHADOW_SIZE
    /\ lightsPc' = "views"
    /\ UNCHANGED << light_storage_buf, viewErrors, nSceneUpdates >>
    /\ UNCHANGED << cacheVars, camVars, frameVars >>

\* one step of lights.iter_mut().enumerate().for_each: the view of light i.
\* A view outside the texture is a validation error; where the device
\* records it the light gets an invalid view and the loop goes on.
ShadowView ==
    /\ lightsPc = "views"
    /\ ViewsMade < Len(lights)
    /\ LET i == ViewsMade
           view == CreateView(shadow_texture, i)
       IN /\ lights' = [lights EXCEPT ![i + 1].shadow_view = view]
          /\ viewErrors' = IF view.valid THEN viewErrors ELSE viewErrors + 1
    /\ UNCHANGED << lightsPc, shadow_texture, light_storage_buf, nSceneUpdates >>
    /\ UNCHANGED << cacheVars, camVars, frameVars >>

\* the same step where the validation error is fatal: the default handler
\* of uncaptured errors panics and no Lights is returned
ShadowViewPanics ==
    /\ lightsPc = "views"
    /\ ViewsMade < Len(lights)
    /\ ~ViewInRange(shadow_texture, ViewsMade, 1)
    /\ lightsPc' = "panicked"
    /\ UNCHANGED << lights, shadow_texture, light_storage_buf, viewErrors, nSceneUpdates >>
    /\ UNCHANGED << cacheVars, camVars, frameVars >>

\* the storage buffer and Self { lights, .. }
LightsReturn ==
    /\ lightsPc = "views"
    /\ ViewsMade = Len(lights)
    /\ light_storage_buf' = MAX_LIGHTS * LightRawSize
    /\ lightsPc' = "returned"
    /\ UNCHANGED << lights, shadow_texture, viewErrors, nSceneUpdates >>
    /\ UNCHANGED << cacheVars, camVars, frameVars >>

(***************************************************************************)
(* scene.rs: Scene::update, and light.rs: LightObject::update.              *)
(***************************************************************************)
MaxSceneUpdates == 2

\* Deg(0.2) in radians
LightStepAngle == 34907

\* Quaternion * Vector3 of cgmath: v + 2 * q.v x (q.v x v + q.s * v)
QuaternionRotate(q, v) ==
    LET qv == << q[1], q[2], q[3] >>
        tmp == VAdd(VCross(qv, v), VScale(v, q[4]))
    IN  VAdd(VMulInt(VCross(qv, tmp), 2), v)

\* Rotation3::from_axis_angle(axis, angle)
FromAxisAngle(axis, angle) ==
    LET s == VScale(axis, Sin(FDivInt(angle, 2)))
    IN  << s[1], s[2], s[3], Cos(FDivInt(angle, 2)) >>

\* the light's position after one step about the y axis
LightStep(position) == QuaternionRotate(FromAxisAngle(UnitY, LightStepAngle), position)

\* LightObject::update: rotate the position, write the raw record
LightObjectUpdate(lo) ==
    LET moved == [lo EXCEPT !.position = LightStep(lo.position)]
    IN  [moved EXCEPT !.buffer = ToRaw(moved)]

\* self.lights.lights[0].update(queue)
UpdateLights(ls) == [ls EXCEPT ![1] = LightObjectUpdate(ls[1])]

\* Scene::update on a scene that holds the Lights just built
SceneUpdate ==
    /\ lightsPc = "returned"
    /\ Len(lights) > 0
    /\ nSceneUpdates < MaxSceneUpdates
    /\ lights' = UpdateLights(lights)
    /\ nSceneUpdates' = nSceneUpdates + 1
    /\ UNCHANGED << lightsPc, shadow_texture, light_storage_buf, viewErrors >>
    /\ UNCHANGED << cacheVars, camVars, frameVars >>

\* lights[0] of an empty vector: index out of bounds
SceneUpdatePanics ==
    /\ lightsPc = "returned"
    /\ Len(lights) = 0
    /\ lightsPc' = "panicked"
    /\ UNCHANGED << lights, shadow_texture, light_storage_buf, viewErrors, nSceneUpdates >>
    /\ UNCHANGED << cacheVars, camVars, frameVars >>

(***************************************************************************)
(* model.rs: the three textures of one material, texture.rs: one_pixel.     *)
(***************************************************************************)
VARIABLES
    mat,        \* the tobj material handed to the loop body, NoMat before
    built       \* what the body produced: the textures or the error

texVars == << mat, built >>

NoMat == [name |-> "", diffuse |-> ZeroVec, specular |-> ZeroVec,
          diffuse_texture |-> "", normal_texture |-> "", specular_texture |-> ""]

NotBuilt == [status |-> "none", textures |-> << >>]

\* colour channels of an MTL file: 0, 0.25, 0.5, 0.999 and 1
Channels == {0, One \div 4, One \div 2, 9990000, One}

DiffuseColors == { << r, g, b >> : r, g, b \in Channels }

SpecularColors == { << 0, 0, 0 >>, << One \div 2, One \div 4, One >> }

\* a material of the folder "a", where wood.png exists and gone.png does not
Mats ==
    { [name |-> "Material", diffuse |-> d, specular |-> s,
       diffuse_texture |-> dt, normal_texture |-> nt, specular_texture |-> st] :
         d \in DiffuseColors, s \in SpecularColors,
         dt \in {"", "wood.png", "gone.png"}, nt \in {"", "wood.png"},
         st \in {"", "wood.png"} }

\* (i * 255.) as u8 with the wrong scale and a wrapping cast
ChannelByteWrapped(c) ==
    ((256 * (c \div 10000) + (256 * (c % 10000)) \div 10000) \div 1000) % 256

\* (i * 255.) as u8: the product is truncated and saturates at 0 and 255
ChannelByte(c) ==
    LET scaled == (255 * (c \div 10000) + (255 * (c % 10000)) \div 10000) \div 1000
    IN  IF c < 0 THEN 0 ELSE IF scaled > 255 THEN 255 ELSE scaled

\* mat.diffuse.iter().map(..).collect() followed by push(0xff)
ColorBytes(color) ==
    << ChannelByte(color[1]), ChannelByte(color[2]), ChannelByte(color[3]), 255 >>

\* the bytes of the default normal texture: 0x80, 0x80, 0xff, 0
NormalBytes == << 128, 128, 255, 0 >>

\* Texture::one_pixel: a 1x1 texture that holds the four bytes
OnePixel(bytes, label, is_normal_map) ==
    [kind |-> "one_pixel", label |-> label, width |-> 1, height |-> 1, rgba |-> bytes,
     format |-> IF is_normal_map THEN "Rgba8Unorm" ELSE "Rgba8UnormSrgb"]

\* Texture::load of a file that opens
Loaded(path, is_normal_map) ==
    [kind |-> "image", label |-> path, width |-> 0, height |-> 0, rgba |-> << >>,
     format |-> IF is_normal_map THEN "Rgba8Unorm" ELSE "Rgba8UnormSrgb"]

\* the diffuse, normal and specular texture of the material, in this order
TexturesOf(folder, m) ==
    << IF m.diffuse_texture # ""
         THEN Loaded(folder \o "/" \o m.diffuse_texture, FALSE)
         ELSE OnePixel(ColorBytes(m.diffuse), "diffuse texture", TRUE),
       IF m.normal_texture # ""
         THEN Loaded(folder \o "/" \o m.normal_texture, TRUE)
         ELSE OnePixel(NormalBytes, "default normal texture", TRUE),
       IF m.specular_texture # ""
         THEN Loaded(folder \o "/" \o m.specular_texture, FALSE)
         ELSE OnePixel(ColorBytes(m.specular), "specular texture", TRUE) >>

\* one pass of the loop body up to the three textures: the first
\* Texture::load that fails returns its error from ObjModel::load
MaterialTextures(m) ==
    /\ built = NotBuilt
    /\ mat' = m
    /\ built' = IF TexturesFail("a", m)
                THEN [status |-> "err_texture",
                      textures |-> SubSeq(TexturesOf("a", m), 1, TexturesBuilt("a", m))]
                ELSE [status |-> "ok", textures |-> TexturesOf("a", m)]
    /\ UNCHANGED << cacheVars, camVars, frameVars, lightVars >>

(***************************************************************************)
(* model.rs: the vertices of a mesh and the tangent of every triangle.      *)
(***************************************************************************)
VARIABLES
    vertices,   \* the mesh's vertices, << >> before the mesh is read
    indices,    \* the index buffer, three indices per triangle
    chunk       \* triangles the tangent loop has passed

meshVars == << vertices, indices, chunk >>

MaxTriangles == 2

\* positions, texture coordinates and normals of the mesh of a bent quad
MeshPositions == << << 0, 0, 0 >>, << One, 0, 0 >>, << One, One, One >>, << 0, One, 2 * One >> >>

MeshTexcoords == << << 0, 0 >>, << One, 0 >>, << One, One >>, << 0, One >> >>

MeshNormals == << << 0, 0, One >>, << 0, 0, One >>, << 0, 0, One >>, << 0, 0, One >> >>

\* vertices.push(ModelVertex { .. }): v is flipped, the tangents are zero
ModelVertex(i) ==
    [position |-> MeshPositions[i + 1],
     tex_coords |-> << MeshTexcoords[i + 1][1], One - MeshTexcoords[i + 1][2] >>,
     normal |-> MeshNormals[i + 1],
     tangent |-> ZeroVec,
     bitangent |-> ZeroVec]

\* the triangles tobj can hand over: three different vertices of the mesh
Triangles ==
    { << a, b, c >> : a, b, c \in 0..3 } \ { t \in { << a, b, c >> : a, b, c \in 0..3 } :
                                              t[1] = t[2] \/ t[1] = t[3] \/ t[2] = t[3] }

RECURSIVE IndexBuffersOf(_)
IndexBuffersOf(n) ==
    IF n = 0 THEN { << >> }
    ELSE { ix \o t : ix \in IndexBuffersOf(n - 1), t \in Triangles }

IndexBuffers == UNION { IndexBuffersOf(n) : n \in 1..MaxTriangles }

\* indices.chunks(3), chunk k counted from 0
Chunk(ix, k) == SubSeq(ix, 3 * k + 1, 3 * k + 3)

\* 1.0 / (dw1.x * dw2.y - dw1.y * dw2.x)
TangentR(dw1, dw2) == FDiv(One, FMul(dw1[1], dw2[2]) - FMul(dw1[2], dw2[1]))

\* tangent and bitangent of the triangle c over the vertices vs
TriangleTangents(vs, c) ==
    LET v0 == vs[c[1] + 1]
        v1 == vs[c[2] + 1]
        v2 == vs[c[3] + 1]
        dp1 == VSub(v1.position, v0.position)
        dp2 == VSub(v2.position, v0.position)
        dw1 == << v1.tex_coords[1] - v0.tex_coords[1], v1.tex_coords[2] - v0.tex_coords[2] >>
        dw2 == << v2.tex_coords[1] - v0.tex_coords[1], v2.tex_coords[2] - v0.tex_coords[2] >>
    IN  [tangent |-> VScale(VSub(VScale(dp1, dw2[2]), VScale(dp2, dw1[2])), TangentR(dw1, dw2)),
         bitangent |-> VScale(VSub(VScale(dp2, dw1[1]), VScale(dp1, dw2[1])), TangentR(dw1, dw2))]

\* a loop body that leaves a vertex alone once it has a tangent
KeepFirstTangents(vs, c) ==
    LET t == TriangleTangents(vs, c)
    IN  [n \in 1..Len(vs) |->
           IF (n - 1 = c[1] \/ n - 1 = c[2] \/ n - 1 = c[3]) /\ vs[n].tangent = ZeroVec
           THEN [vs[n] EXCEPT !.tangent = t.tangent, !.bitangent = t.bitangent]
           ELSE vs[n]]

\* vertices[c[k]].tangent = tangent, vertices[c[k]].bitangent = bitangent
WriteTangents(vs, c) ==
    LET t == TriangleTangents(vs, c)
    IN  [n \in 1..Len(vs) |->
           IF n - 1 = c[1] \/ n - 1 = c[2] \/ n - 1 = c[3]
           THEN [vs[n] EXCEPT !.tangent = t.tangent, !.bitangent = t.bitangent]
           ELSE vs[n]]

\* the vertices of the mesh are pushed; its index buffer is any of IndexBuffers
MeshVertices ==
    /\ vertices = << >>
    /\ vertices' = [n \in 1..Len(MeshPositions) |-> ModelVertex(n - 1)]
    /\ indices' \in IndexBuffers
    /\ chunk' = 0
    /\ UNCHANGED << cacheVars, camVars, frameVars, lightVars, texVars >>

\* one pass of for c in indices.chunks(3)
TangentChunk ==
    /\ vertices # << >>
    /\ 3 * chunk < Len(indices)
    /\ vertices' = WriteTangents(vertices, Chunk(indices, chunk))
    /\ chunk' = chunk + 1
    /\ UNCHANGED indices
    /\ UNCHANGED << cacheVars, camVars, frameVars, lightVars, texVars >>

Init ==
    /\ sceneLock = FreeLock
    /\ shadersLock = FreeLock
    /\ materialsLock = FreeLock
    /\ collectionLock = FreeLock
    /\ modelsLock = FreeLock
    /\ shaders = << >>
    /\ materials = << >>
    /\ sceneModels = << >>
    /\ nextId = 1
    /\ gpuAllocs = 0
    /\ shaderFilesOk \in BOOLEAN
    /\ pc = [l \in Loaders |-> "idle"]
    /\ task = [l \in Loaders |-> IdleTask]
    /\ uiPc = "idle"
    /\ drawn = << >>
    /\ cam = CameraNew
    /\ ctl = ControllerNew
    /\ nEvents = 0
    /\ nUpdates = 0
    /\ scrollSum = 0
    /\ window = WindowSize
    /\ pending = << >>
    /\ phase = "events"
    /\ redrawRequested = FALSE
    /\ controlFlow = "Poll"
    /\ gfx = GfxNew
    /\ uniforms = ViewProj(CameraNew, GfxNew)
    /\ lightDeg = 0
    /\ panic = "none"
    /\ submitted = << >>
    /\ lastPass = [frame |-> WindowSize, depth |-> WindowSize]
    /\ updatesSinceRender = 0
    /\ nRenders = 0
    /\ nLoops = 0
    /\ nOs = 0
    /\ lights = << >>
    /\ lightsPc = "idle"
    /\ shadow_texture = NoTexture
    /\ light_storage_buf = 0
    /\ viewErrors = 0
    /\ nSceneUpdates = 0
    /\ mat = NoMat
    /\ built = NotBuilt
    /\ vertices = << >>
    /\ indices = << >>
    /\ chunk = 0

Load(l) ==
    \/ LoadStart(l)
    \/ BuildTextures(l)
    \/ ShaderEntry(l)
    \/ ShaderInsert(l)
    \/ MaterialEntry(l)
    \/ MaterialInsert(l)
    \/ MeshLookup(l)
    \/ LoadFinish(l)

(* The loaders and the render thread; the camera is left alone.            *)
Next ==
    \/ \E l \in Loaders : Load(l) /\ UNCHANGED << camVars, frameVars, lightVars, texVars, meshVars >>
    \/ \E l \in Loaders : AddModel(l) /\ UNCHANGED << camVars, frameVars, lightVars, texVars, meshVars >>
    \/ SceneDraw /\ UNCHANGED << camVars, frameVars, lightVars, texVars, meshVars >>
    \/ UiCompileScene /\ UNCHANGED << camVars, frameVars, lightVars, texVars, meshVars >>
    \/ UiCompileShaders /\ UNCHANGED << camVars, frameVars, lightVars, texVars, meshVars >>
    \/ UiSkipCompile /\ UNCHANGED << camVars, frameVars, lightVars, texVars, meshVars >>
    \/ UiListModels /\ UNCHANGED << camVars, frameVars, lightVars, texVars, meshVars >>
    \/ UiMaterials /\ UNCHANGED << camVars, frameVars, lightVars, texVars, meshVars >>

vars == << cacheVars, camVars, frameVars, lightVars, texVars, meshVars >>

Spec == Init /\ [][Next]_vars

(* The window's events and the per-frame update, in any order.             *)
CamNext ==
    \/ \E keycode \in Keys, is_pressed \in BOOLEAN :
          nEvents < MaxEvents /\ KeyboardInput(keycode, is_pressed) /\ UNCHANGED << frameVars, lightVars, texVars, meshVars >>
    \/ \E vertical \in ScrollLines : nEvents < MaxEvents /\ MouseWheel(vertical) /\ UNCHANGED << frameVars, lightVars, texVars, meshVars >>
    \/ \E position \in CursorPositions : nEvents < MaxEvents /\ CursorMoved(position) /\ UNCHANGED << frameVars, lightVars, texVars, meshVars >>
    \/ \E is_pressed \in BOOLEAN : nEvents < MaxEvents /\ MouseInput(is_pressed) /\ UNCHANGED << frameVars, lightVars, texVars, meshVars >>
    \/ nUpdates < MaxUpdates /\ UpdateCamera /\ UNCHANGED << frameVars, lightVars, texVars, meshVars >>

SpecCam == Init /\ [][CamNext]_vars

(* Only the two yaw keys are used.                                         *)
YawNext ==
    \/ \E keycode \in YawKeys, is_pressed \in BOOLEAN :
          nEvents < MaxYawEvents /\ KeyboardInput(keycode, is_pressed) /\ UNCHANGED << frameVars, lightVars, texVars, meshVars >>
    \/ nUpdates < MaxYawSteps /\ UpdateCamera /\ UNCHANGED << frameVars, lightVars, texVars, meshVars >>

SpecYaw == Init /\ [][YawNext]_vars

(* The pan's inputs: shift, the middle button, the cursor and the wheel.    *)
PanNext ==
    \/ \E keycode \in PanKeys, is_pressed \in BOOLEAN :
          nEvents < MaxPanEvents /\ KeyboardInput(keycode, is_pressed) /\ UNCHANGED << frameVars, lightVars, texVars, meshVars >>
    \/ \E vertical \in PanScrollLines : nEvents < MaxPanEvents /\ MouseWheel(vertical) /\ UNCHANGED << frameVars, lightVars, texVars, meshVars >>
    \/ \E position \in CursorPositions : nEvents < MaxPanEvents /\ CursorMoved(position) /\ UNCHANGED << frameVars, lightVars, texVars, meshVars >>
    \/ \E is_pressed \in BOOLEAN : nEvents < MaxPanEvents /\ MouseInput(is_pressed) /\ UNCHANGED << frameVars, lightVars, texVars, meshVars >>
    \/ nUpdates < MaxPanUpdates /\ UpdateCamera /\ UNCHANGED << frameVars, lightVars, texVars, meshVars >>

SpecPan == Init /\ [][PanNext]_vars

(* The frame driver: the system's events and the loop's callbacks.          *)
FrameNext ==
    \/ \E new_size \in Sizes : OsResize(new_size) /\ UNCHANGED << lightVars, texVars, meshVars >>
    \/ \E key \in FrameKeys, pressed \in BOOLEAN : OsInput(KeyEvent(key, pressed)) /\ UNCHANGED << lightVars, texVars, meshVars >>
    \/ OsInput(CloseRequested) /\ UNCHANGED << lightVars, texVars, meshVars >>
    \/ OsRedraw /\ UNCHANGED << lightVars, texVars, meshVars >>
    \/ InputKey /\ UNCHANGED << lightVars, texVars, meshVars >>
    \/ ExitEvent /\ UNCHANGED << lightVars, texVars, meshVars >>
    \/ ResizedEvent /\ UNCHANGED << lightVars, texVars, meshVars >>
    \/ ResizedPanics /\ UNCHANGED << lightVars, texVars, meshVars >>
    \/ EventsDone /\ UNCHANGED << lightVars, texVars, meshVars >>
    \/ MainEventsCleared /\ UNCHANGED << lightVars, texVars, meshVars >>
    \/ RenderPanics /\ UNCHANGED << lightVars, texVars, meshVars >>
    \/ Render /\ UNCHANGED << lightVars, texVars, meshVars >>
    \/ RedrawEventsCleared /\ UNCHANGED << lightVars, texVars, meshVars >>

SpecFrame == Init /\ [][FrameNext]_vars

(* One call of Lights::new on a vector of up to MaxLightsIn lights.         *)
LightsNext ==
    \/ \E input \in LightVectors : LightsNew(input) /\ UNCHANGED << texVars, meshVars >>
    \/ ShadowView /\ UNCHANGED << texVars, meshVars >>
    \/ ShadowViewPanics /\ UNCHANGED << texVars, meshVars >>
    \/ LightsReturn /\ UNCHANGED << texVars, meshVars >>

SpecLights == Init /\ [][LightsNext]_vars

(* A scene around the Lights that Lights::new returned, updated per frame.  *)
SceneNext ==
    \/ \E input \in LightVectors : LightsNew(input) /\ UNCHANGED << texVars, meshVars >>
    \/ ShadowView /\ UNCHANGED << texVars, meshVars >>
    \/ ShadowViewPanics /\ UNCHANGED << texVars, meshVars >>
    \/ LightsReturn /\ UNCHANGED << texVars, meshVars >>
    \/ SceneUpdate /\ UNCHANGED << texVars, meshVars >>
    \/ SceneUpdatePanics /\ UNCHANGED << texVars, meshVars >>

SpecScene == Init /\ [][SceneNext]_vars

(* The textures of one material, for every material of Mats.                *)
TextureNext ==
    \E m \in Mats : MaterialTextures(m) /\ UNCHANGED meshVars

SpecTexture == Init /\ [][TextureNext]_vars

(* The tangent loop over one mesh, for every index buffer of IndexBuffers. *)
TangentNext ==
    \/ MeshVertices
    \/ TangentChunk

SpecTangent == Init /\ [][TangentNext]_vars

(* Loads of the files of MeshIdPaths, and the caller that keeps the model. *)
MeshIdNext ==
    \/ \E l \in Loaders : LoadStartFrom(l, MeshIdPaths) /\ UNCHANGED << camVars, frameVars, lightVars, texVars, meshVars >>
    \/ \E l \in Loaders : BuildTextures(l) /\ UNCHANGED << camVars, frameVars, lightVars, texVars, meshVars >>
    \/ \E l \in Loaders : ShaderEntry(l) /\ UNCHANGED << camVars, frameVars, lightVars, texVars, meshVars >>
    \/ \E l \in Loaders : ShaderInsert(l) /\ UNCHANGED << camVars, frameVars, lightVars, texVars, meshVars >>
    \/ \E l \in Loaders : MaterialEntry(l) /\ UNCHANGED << camVars, frameVars, lightVars, texVars, meshVars >>
    \/ \E l \in Loaders : MaterialInsert(l) /\ UNCHANGED << camVars, frameVars, lightVars, texVars, meshVars >>
    \/ \E l \in Loaders : MeshLookup(l) /\ UNCHANGED << camVars, frameVars, lightVars, texVars, meshVars >>
    \/ \E l \in Loaders : LoadFinish(l) /\ UNCHANGED << camVars, frameVars, lightVars, texVars, meshVars >>
    \/ \E l \in Loaders : AddModel(l) /\ UNCHANGED << camVars, frameVars, lightVars, texVars, meshVars >>

SpecMeshId == Init /\ [][MeshIdNext]_vars

(* The loaders, the caller that keeps the model, and the render thread,     *)
(* over the files of LockPaths: loads that end well, with an error and     *)
(* with a panic.                                                           *)
LocksNext ==
    \/ \E l \in Loaders : LoadStartFrom(l, LockPaths) /\ UNCHANGED << camVars, frameVars, lightVars, texVars, meshVars >>
    \/ \E l \in Loaders : BuildTextures(l) /\ UNCHANGED << camVars, frameVars, lightVars, texVars, meshVars >>
    \/ \E l \in Loaders : ShaderEntry(l) /\ UNCHANGED << camVars, frameVars, lightVars, texVars, meshVars >>
    \/ \E l \in Loaders : ShaderInsert(l) /\ UNCHANGED << camVars, frameVars, lightVars, texVars, meshVars >>
    \/ \E l \in Loaders : MaterialEntry(l) /\ UNCHANGED << camVars, frameVars, lightVars, texVars, meshVars >>
    \/ \E l \in Loaders : MaterialInsert(l) /\ UNCHANGED << camVars, frameVars, lightVars, texVars, meshVars >>
    \/ \E l \in Loaders : MeshLookup(l) /\ UNCHANGED << camVars, frameVars, lightVars, texVars, meshVars >>
    \/ \E l \in Loaders : LoadFinish(l) /\ UNCHANGED << camVars, frameVars, lightVars, texVars, meshVars >>
    \/ \E l \in Loaders : AddModel(l) /\ UNCHANGED << camVars, frameVars, lightVars, texVars, meshVars >>
    \/ SceneDraw /\ UNCHANGED << camVars, frameVars, lightVars, texVars, meshVars >>
    \/ UiCompileScene /\ UNCHANGED << camVars, frameVars, lightVars, texVars, meshVars >>
    \/ UiCompileShaders /\ UNCHANGED << camVars, frameVars, lightVars, texVars, meshVars >>
    \/ UiSkipCompile /\ UNCHANGED << camVars, frameVars, lightVars, texVars, meshVars >>
    \/ UiListModels /\ UNCHANGED << camVars, frameVars, lightVars, texVars, meshVars >>
    \/ UiMaterials /\ UNCHANGED << camVars, frameVars, lightVars, texVars, meshVars >>

SpecLocks == Init /\ [][LocksNext]_vars
(***************************************************************************)
(* The caches' contract.                                                   *)
(***************************************************************************)
Range(f) == {f[x] : x \in DOMAIN f}

Running(l) == pc[l] \notin {"idle", "done", "added"}

\* C1: for every material key and every shader key, whatever the
\* interleaving of the concurrent loads, no more Arcs have been constructed
\* than there are keys in the two caches (one Material or Shader per key),
\* and every handle a load holds, in its materials, its meshes or as its
\* shader, is the handle the cache stores under that key, so two loads that
\* reference the same key hold the same handle.
C1_OneObjectPerKey ==
    /\ nextId - 1 = Cardinality(DOMAIN shaders) + Cardinality(DOMAIN materials)
    /\ \A l \in Loaders :
         /\ \A n \in 1..Len(task[l].mats) :
              /\ task[l].keys[n] \in DOMAIN materials
              /\ task[l].mats[n] = materials[task[l].keys[n]]
         /\ task[l].shader # NoShader =>
              ShaderKey \in DOMAIN shaders /\ task[l].shader = shaders[ShaderKey]
         /\ \A n \in 1..Len(task[l].meshes) : task[l].meshes[n] \in Range(materials)
    /\ \A l1, l2 \in Loaders :
         \A n1 \in 1..Len(task[l1].mats), n2 \in 1..Len(task[l2].mats) :
            task[l1].keys[n1] = task[l2].keys[n2] => task[l1].mats[n1] = task[l2].mats[n2]

\* two loads running at the same time hold the handle of the same key
C1_Witness ==
    \E l1, l2 \in Loaders :
       /\ l1 # l2
       /\ pc[l1] = "mesh" /\ pc[l2] = "mesh"
       /\ task[l1].mats # << >> /\ task[l2].mats # << >>
       /\ task[l1].keys[1] = task[l2].keys[1]
       /\ task[l1].mats[1] = task[l2].mats[1]
       /\ task[l1].shader = task[l2].shader

\* a step of load l that leaves one of the positions ps
StepsFrom(l, ps) == pc[l] \in ps /\ pc'[l] # pc[l]

\* C2: a load whose material key is already in the materials cache takes
\* the existing handle and creates no GPU object for that material: neither
\* its textures nor a bind group nor a pipeline.
C2_HitAllocatesNothing ==
    [][\A l \in Loaders :
         ( /\ StepsFrom(l, {"textures", "shader_entry", "shader_insert",
                            "material_entry", "material_insert"})
           /\ CurKey(l) \in DOMAIN materials )
         => gpuAllocs' = gpuAllocs]_vars

\* the entries a load has added to the caches
AddedBy(l) == {k \in DOMAIN materials : materials[k].by = l}
                 \cup {k \in DOMAIN shaders : shaders[k].by = l}

\* C3: a load in which the construction of a texture, a material or a
\* shader failed has reported an error, none of the entries it added is
\* left in the materials or shaders cache, and neither cache lock is
\* poisoned.
C3_FailedLoadLeavesCaches ==
    \A l \in Loaders :
       (pc[l] = "done" /\ task[l].result \in {"err_texture", "panic_shader"}) =>
          /\ task[l].result = "err_texture"
          /\ AddedBy(l) = {}
          /\ ~shadersLock.poisoned
          /\ ~materialsLock.poisoned

\* C4: equal material keys denote the same resource: two loads that compute
\* the same key read the same source file and the same material index, and
\* every mesh is bound to a material built from its own file's definition.
C4_EqualKeysSameResource ==
    /\ \A l1, l2 \in Loaders :
         \A n1 \in 1..Len(task[l1].keys), n2 \in 1..Len(task[l2].keys) :
            task[l1].keys[n1] = task[l2].keys[n2] =>
               task[l1].file = task[l2].file /\ n1 = n2
    /\ \A l \in Loaders :
         \A n \in 1..Len(task[l].meshes) : task[l].meshes[n].source = task[l].file

\* C5: no eviction: a key that is in the materials or the shaders cache
\* stays in it, with the same handle, across every step of the loads, the
\* draw pass and the inspection UI.
C5_NoEviction ==
    [][/\ \A k \in DOMAIN materials :
            k \in DOMAIN materials' /\ materials'[k] = materials[k]
       /\ \A k \in DOMAIN shaders :
            k \in DOMAIN shaders' /\ shaders'[k] = shaders[k]]_vars

\* a load finds its key in the cache after the first model was drawn and
\* while the inspection UI lists the materials
C5_Witness ==
    /\ \E l \in Loaders : pc[l] = "material_insert" /\ ~task[l].vacant
    /\ drawn # << >>
    /\ uiPc = "list_materials"

\* C18: every model the draw pass can reach is one whose load has returned:
\* the scene holds as many models as there are loads whose caller added
\* theirs, each is the mesh list of such a load and has one mesh for every
\* mesh of its file, and what the last draw pass bound is a prefix of the
\* meshes of these models; a load still in progress has added nothing.
C18_DrawnModelsComplete ==
    /\ Len(sceneModels) = Cardinality({l \in Loaders : pc[l] = "added"})
    /\ \A n \in 1..Len(sceneModels) :
          \E l \in Loaders :
             /\ pc[l] = "added"
             /\ task[l].result = "ok"
             /\ sceneModels[n] = task[l].meshes
             /\ Len(sceneModels[n]) = Len(CurFile(l).meshes)
    /\ Len(drawn) <= Len(DrawList(sceneModels))
    /\ \A n \in 1..Len(drawn) : drawn[n] = DrawList(sceneModels)[n]

\* a draw pass has bound both meshes of a two-mesh model while another load
\* was still filling its mesh list
C18_Witness ==
    /\ \E n \in 1..Len(sceneModels) : Len(sceneModels[n]) = 2
    /\ Len(drawn) >= 2
    /\ \E l \in Loaders : pc[l] = "mesh" /\ task[l].m < Len(CurFile(l).meshes)

\* C22: a material that names a texture file which cannot be opened does
\* not fail the load: no load ends with the error of Texture::load.
C22_MissingTextureFallsBack ==
    \A l \in Loaders : task[l].result # "err_texture"

\* the file has a mesh without material id or with one that is not smaller
\* than the number of its materials
BadMaterialId(file) ==
    \E k \in 1..Len(file.meshes) :
       file.meshes[k] = NoMaterialId \/ file.meshes[k] >= Len(file.materials)

\* C26: a load of a file with such a mesh produces no model, and once it
\* has built all materials it ends with a panic at the material lookup of
\* the mesh loop, never with an error or a model.
C26_BadMaterialIdPanics ==
    \A l \in Loaders :
       task[l].file # "" /\ BadMaterialId(CurFile(l)) =>
          /\ pc[l] # "added"
          /\ task[l].result \notin {"ok", "err_texture"}
          /\ pc[l] = "done" /\ task[l].i = Len(CurFile(l).materials) =>
                task[l].result \in {"panic_material_id", "panic_poisoned"}

\* both kinds of bad id have panicked: the mesh of d/bare.obj has no id, the
\* second mesh of f/over.obj has id 1 with one material, its first mesh was
\* built
C26_Witness ==
    \E l1, l2 \in Loaders :
       /\ task[l1].file = "d/bare.obj" /\ task[l1].result = "panic_material_id"
       /\ task[l2].file = "f/over.obj" /\ task[l2].result = "panic_material_id"
       /\ Len(task[l2].meshes) = 1

\* the loaders and the thread that draws and runs the inspection UI
Participants == Loaders \cup {UiThread}

LockNamed(name) ==
    CASE name = "scene" -> sceneLock
      [] name = "shaders" -> shadersLock
      [] name = "materials" -> materialsLock
      [] name = "collection" -> collectionLock
      [] name = "models" -> modelsLock

\* the lock the participant's next step takes and how; the UI is taken to
\* click "Compile shader" whenever it can
Wanted(p) ==
    IF p = UiThread
    THEN CASE uiPc \in {"idle", "count", "rows", "list"} -> << "scene", "read" >>
           [] uiPc = "gui" -> << "scene", "write" >>
           [] uiPc = "compile" -> << "shaders", "read" >>
           [] uiPc = "models" -> << "collection", "read" >>
           [] uiPc \in {"count_materials", "rows_materials", "list_materials"} ->
                 << "materials", "read" >>
           [] OTHER -> << "none", "none" >>
    ELSE CASE pc[p] = "idle" -> << "scene", "read" >>
           [] pc[p] = "shader_entry" -> << "shaders", "write" >>
           [] pc[p] = "material_entry" -> << "materials", "write" >>
           [] pc[p] = "mesh" /\ task[p].m < Len(CurFile(p).meshes) -> << "materials", "read" >>
           [] pc[p] = "done" /\ task[p].result = "ok" -> << "scene", "write" >>
           [] OTHER -> << "none", "none" >>

\* the participants whose guards keep p from taking the lock it wants
Blockers(p) ==
    LET w == Wanted(p)
    IN  IF w[1] = "none" THEN {}
        ELSE IF w[2] = "read" THEN {LockNamed(w[1]).writer} \ {NoOwner}
        ELSE ({LockNamed(w[1]).writer} \ {NoOwner}) \cup LockNamed(w[1]).readers

\* the participants that cannot take their next step now
Waiting == { p \in Participants : Blockers(p) # {} }

\* every member of D waits for a guard that a member of D holds
Deadlocked(D) == D # {} /\ \A p \in D : Blockers(p) \cap D # {}

\* C29: no set of waiting participants is deadlocked; in particular the
\* participants are never all blocked, each waiting for a lock another holds.
C29_NoDeadlock ==
    \A D \in SUBSET Waiting : ~Deadlocked(D)

\* the UI waits for the scene write lock that a loader's read guard blocks,
\* while that loader waits for the materials lock another loader holds
C29_Witness ==
    \E l1, l2 \in Loaders :
       /\ l1 # l2
       /\ l1 \in Blockers(UiThread)
       /\ l2 \in Blockers(l1)
       /\ Blockers(l2) = {}

(***************************************************************************)
(* The camera's contract.                                                  *)
(***************************************************************************)
\* lengths are compared to within 1e-4, the up vector's to within 1e-5
RadiusTolerance == One \div 10000

UpTolerance == One \div 100000

Radius(c) == Magnitude(VSub(c.target, c.eye))

\* this step is a call of update_camera
Updates == nUpdates' = nUpdates + 1

\* the flags of k that are set, among the keys' and the middle button's
Held(k) == {f \in Range(KeyField) \cup {"is_middle_pressed"} : k[f]}

\* C6: for any sequence of controller inputs (orbit keys, drag orbit, pan,
\* dolly, translation keys and the front, right and top view snaps) the
\* camera's up vector has length 1, to within 1e-5, after every call of
\* update_camera.
C6_UpIsUnit ==
    ~cam.nan => Abs(Magnitude(cam.up) - One) <= UpTolerance

\* C7: starting from eye # target, after any sequence of input events and
\* updates, with scroll deltas of any magnitude and sign, eye # target and
\* no update has normalized a zero-length forward vector into the camera.
C7_EyeNeverTarget ==
    ~cam.nan /\ cam.eye # cam.target

\* the part of the eye's offset from the target that lies in the ground plane
Ground(c) == << c.eye[1] - c.target[1], 0, c.eye[3] - c.target[3] >>

\* C8: starting at eye = (3, 4, -6), target = (0, 0, 0), every update with
\* exactly one of the yaw keys held leaves |eye - target| at its initial
\* value to within 1e-4, however many steps came before, changes eye, keeps
\* its height over the ground plane and turns its ground-plane offset by
\* 0.05 rad about the world-up axis: the offsets before and after have the
\* dot product |h|^2 cos 0.05 and a cross product of length |h|^2 sin 0.05.
C8_YawPreservesRadius ==
    [][ Updates /\ ctl.is_left_pressed # ctl.is_right_pressed =>
          LET h  == Ground(cam)
              h2 == Ground(cam')
              hh == VDot(h, h)
          IN  /\ Abs(Radius(cam') - Radius(CameraNew)) <= RadiusTolerance
              /\ cam'.eye # cam.eye
              /\ cam'.target = cam.target
              /\ Abs(cam'.eye[2] - cam.eye[2]) <= RadiusTolerance
              /\ Abs(VDot(h, h2) - FMul(hh, Cos(YawAngle))) <= RadiusTolerance
              /\ Abs(Magnitude(VCross(h, h2)) - FMul(hh, Sin(YawAngle))) <= RadiusTolerance
      ]_vars

\* five steps with the yaw-left key held since before the first of them:
\* the ground-plane offset has turned by a quarter of a radian
C8_Witness ==
    /\ nUpdates >= 5
    /\ nEvents = 1
    /\ ctl.is_left_pressed
    /\ VDot(Ground(CameraNew), Ground(cam)) < 438 * (One \div 10)
    /\ Abs(Radius(cam) - Radius(CameraNew)) <= RadiusTolerance

\* C9: an update in which only a pitch key is held, or only the middle
\* button without shift (drag orbit), and no dolly is pending, is a pure
\* rotation about the target: |target - eye| after the step equals
\* |target - eye| before it, to within 1e-4, in every reachable state.
C9_PitchAndDragArePureRotations ==
    [][ /\ Updates
        /\ ~ctl.is_wheel_scrolled
        /\ ~ctl.is_shift_pressed
        /\ Held(ctl) \in {{"is_up_pressed"}, {"is_down_pressed"}, {"is_middle_pressed"}}
        /\ ~cam'.nan
        => Abs(Radius(cam') - Radius(cam)) <= RadiusTolerance
      ]_vars

\* C10: an update with no key and no button held, after a scroll event of
\* vertical delta d, sets eye to eye + (target - eye) / 10 * d; every
\* update leaves the stored delta 0 and the scroll flag clear; and an update
\* with no key held and no scroll event since the last one leaves eye where
\* it was.
C10_Dolly ==
    [][ Updates =>
          /\ ctl'.scroll = 0
          /\ ~ctl'.is_wheel_scrolled
          /\ Held(ctl) = {} /\ ctl.is_wheel_scrolled =>
                cam'.eye = VAdd(cam.eye,
                                VScale(VDivInt(VSub(cam.target, cam.eye), 10), ctl.scroll))
          /\ Held(ctl) = {} /\ ~ctl.is_wheel_scrolled => cam'.eye = cam.eye
      ]_vars

\* one scroll of +1 and two updates: the eye has moved a tenth of the way
C10_Witness ==
    /\ nUpdates = 2
    /\ nEvents = 1
    /\ ctl.scroll = 0 /\ ~ctl.is_wheel_scrolled
    /\ cam.eye = << 27000000, 36000000, -54000000 >>
    /\ cam.target = ZeroVec

\* the largest difference between two vectors' components
Apart(a, b) ==
    LET d == VSub(a, b)
        m == IF Abs(d[1]) > Abs(d[2]) THEN Abs(d[1]) ELSE Abs(d[2])
    IN  IF m > Abs(d[3]) THEN m ELSE Abs(d[3])

\* this step is a pan: shift and the middle button held, nothing else
Pans ==
    /\ Updates
    /\ Held(ctl) = {"is_middle_pressed", "is_shift_pressed"}
    /\ ~ctl.is_wheel_scrolled

\* C11: an update with shift and the middle button held (and eye # target)
\* adds one displacement to eye and to target, each component the same to
\* within 1e-4, and leaves up as it was, so target - eye, the orbit radius
\* and the view direction, is what it was before the pan.
C11_PanKeepsOffset ==
    [][ Pans /\ Radius(cam) # 0 =>
          /\ ~cam'.nan
          /\ Apart(VSub(cam'.eye, cam.eye), VSub(cam'.target, cam.target)) <= RadiusTolerance
          /\ Apart(VSub(cam'.target, cam'.eye), VSub(cam.target, cam.eye)) <= RadiusTolerance
          /\ cam'.up = cam.up
      ]_vars

\* a pan has moved the target off the origin, with the offset it began with
C11_Witness ==
    /\ nUpdates >= 1
    /\ ctl.is_middle_pressed /\ ctl.is_shift_pressed
    /\ cam.target # ZeroVec
    /\ VSub(cam.target, cam.eye) = VSub(CameraNew.target, CameraNew.eye)
    /\ cam.up = UnitY

\* the axis (1, 2 or 3) the eye lies on in the view a snap flag selects, and
\* the unit vector that is up in that view
SnapAxis == [is_camera_front_pressed |-> 3,
             is_camera_right_pressed |-> 1,
             is_camera_top_pressed |-> 2]

SnapUp == [is_camera_front_pressed |-> << 0, One, 0 >>,
           is_camera_right_pressed |-> << 0, One, 0 >>,
           is_camera_top_pressed |-> << 0, 0, One >>]

\* C12: an update with exactly one of the front, right and top snap keys
\* held, and nothing else, leaves eye on that view's axis (its two other
\* components 0 relative to the target), at the distance from the target it
\* had before the snap, and leaves up the unit vector of that view.
C12_SnapToView ==
    [][ Updates /\ ~ctl.is_wheel_scrolled /\ ~cam.nan =>
          \A f \in DOMAIN SnapAxis :
             Held(ctl) = {f} =>
               /\ \A i \in 1..3 : i # SnapAxis[f] => cam'.eye[i] = cam'.target[i]
               /\ Abs(cam'.eye[SnapAxis[f]] - cam'.target[SnapAxis[f]]) = Radius(cam)
               /\ cam'.up = SnapUp[f]
      ]_vars

\* C27: the wheel deltas that arrive between two updates add up: an update
\* with no key and no button held moves the eye by a tenth of the way to the
\* target times the sum of the deltas received since the last update, and
\* leaves the stored delta 0.
C27_ScrollAccumulates ==
    [][ Updates /\ Held(ctl) = {} =>
          /\ cam'.eye = VAdd(cam.eye,
                             VScale(VDivInt(VSub(cam.target, cam.eye), 10), scrollSum))
          /\ ctl'.scroll = 0
      ]_vars

(***************************************************************************)
(* The frame driver's contract.                                            *)
(***************************************************************************)
\* the aspect a is width / height to within 1e-4
AspectIs(a, width, height) == Abs((a \div 1000) * height - width * 10000) <= height

\* this step is a call of State::resize that returns
ResizeReturns ==
    /\ phase = "events" /\ pending # << >>
    /\ Head(pending).type = "Resized"
    /\ pending' = Tail(pending)
    /\ phase' # "panicked"

\* this step is a call of State::render that returns
Renders == phase = "redraw" /\ phase' = "cleared"

\* C13: when resize(w, h) returns, the surface configuration is w x h, the
\* depth texture render attaches is w x h, the swap chain was created for
\* w x h, and for h > 0 projection.aspect is w / h to within 1e-4.
C13_ResizeConsistent ==
    [][ ResizeReturns =>
          LET new_size == Head(pending).size
          IN  /\ gfx'.sc_desc = new_size
              /\ gfx'.depth_texture = new_size
              /\ gfx'.swap_chain = new_size
              /\ new_size[2] > 0 =>
                   AspectIs(gfx'.projection_aspect, new_size[1], new_size[2])
      ]_vars

\* the window went from 800 x 600, aspect 1.3333, to 1920 x 1080: the aspect
\* is 1.7778 and the depth texture 1920 x 1080
C13_Witness ==
    /\ AspectIs(Ratio(WindowSize[1], WindowSize[2]), 4, 3)
    /\ gfx.sc_desc = << 1920, 1080 >>
    /\ gfx.depth_texture = << 1920, 1080 >>
    /\ Abs(gfx.projection_aspect - 17778000) <= 1000
    /\ phase # "panicked"

\* C14: whatever the resizes and redraws, the depth attachment of every
\* scene pass has the dimensions of the surface configuration the swap chain
\* of its frame was created with: resize rebuilds both in one call of the
\* handler, and no render runs in between.
C14_DepthMatchesFrame ==
    lastPass.depth = lastPass.frame

\* a frame drawn after the window grew to 1920 x 1080
C14_Witness ==
    /\ nRenders >= 1
    /\ lastPass.frame = << 1920, 1080 >>
    /\ lastPass.depth = << 1920, 1080 >>

\* C15: a failure to acquire the frame in render never terminates the
\* process (the driver reconfigures, retries once, else skips the frame).
C15_AcquireFailureSkipsFrame ==
    panic # "get_current_frame"

\* C16: between two consecutive calls of render, update (update_camera and
\* the constant-buffer refresh) is called exactly once.
C16_OneUpdatePerFrame ==
    [][ Renders /\ nRenders >= 1 => updatesSinceRender = 1 ]_vars

C28_UniformsCurrentAtRender ==
    [][ Renders => uniforms = ViewProj(cam, gfx) ]_vars

\* a frame was rendered after a resize and after a key had turned the
\* camera, and the buffer holds the new aspect and the new eye
C28_Witness ==
    /\ nRenders >= 1
    /\ phase = "cleared"
    /\ updatesSinceRender = 0
    /\ gfx.size = << 1920, 1080 >>
    /\ cam.eye # CameraNew.eye
    /\ uniforms = ViewProj(cam, gfx)
    /\ uniforms # ViewProj(CameraNew, GfxNew)

\* C30: whatever sizes the window has been resized to, the stored aspect is
\* a finite positive number and the depth texture has a width and a height
\* that are not zero.
C30_ResizeStoresFiniteAspect ==
    /\ gfx.projection_aspect # NonFinite
    /\ gfx.projection_aspect > 0
    /\ gfx.depth_texture[1] > 0
    /\ gfx.depth_texture[2] > 0
(***************************************************************************)
(* The lights.                                                             *)
(***************************************************************************)
\* C19: the Lights that Lights::new returns never holds more than
\* MAX_LIGHTS lights.
C19_AtMostMaxLights ==
    lightsPc = "returned" => Len(lights) <= MAX_LIGHTS

\* C20: for a vector of at most MAX_LIGHTS lights the call does not fail, and
\* the shadow view of light i selects layer i, which is one of the layers of
\* the shadow texture.
C20_LayerPerLight ==
    Len(lights) <= MAX_LIGHTS =>
        /\ lightsPc # "panicked"
        /\ \A n \in 1..Len(lights) :
              lights[n].shadow_view # NoView =>
                 /\ lights[n].shadow_view.base_array_layer = n - 1
                 /\ n - 1 < shadow_texture.depth_or_array_layers

\* C21: a Scene::update moves every light of the scene by one rotation step
\* about the y axis, and afterwards the buffer of every light holds the raw
\* record of the light's position.
C21_UpdateAdvancesEveryLight ==
    [][ SceneUpdate =>
          \A n \in 1..Len(lights) :
             /\ lights'[n].position = LightStep(lights[n].position)
             /\ lights'[n].buffer = ToRaw(lights'[n]) ]_vars

(***************************************************************************)
(* The tangents.                                                           *)
(***************************************************************************)
\* the triangles passed so far that name vertex v, counted from 0
Referencing(v) ==
    { k \in 0..(chunk - 1) : \E j \in 1..3 : Chunk(indices, k)[j] = v }

\* the largest member of a non-empty set of numbers
Last(S) == CHOOSE k \in S : \A j \in S : j <= k

\* C24: after the loop has passed some triangles, the tangent and the
\* bitangent of a vertex are those of the last of these triangles that
\* names the vertex, and a vertex that none of them names has zero tangents.
C24_LastTriangleWins ==
    \A n \in 1..Len(vertices) :
       IF Referencing(n - 1) = {}
       THEN vertices[n].tangent = ZeroVec /\ vertices[n].bitangent = ZeroVec
       ELSE LET t == TriangleTangents(vertices, Chunk(indices, Last(Referencing(n - 1))))
            IN  vertices[n].tangent = t.tangent /\ vertices[n].bitangent = t.bitangent

\* the loop is over; vertex 0 belongs to two triangles with different
\* tangents and has the tangent of the second
C24_Witness ==
    /\ vertices # << >>
    /\ 3 * chunk = Len(indices)
    /\ Referencing(0) = {0, 1}
    /\ TriangleTangents(vertices, Chunk(indices, 0)).tangent
          # TriangleTangents(vertices, Chunk(indices, 1)).tangent
    /\ vertices[1].tangent = TriangleTangents(vertices, Chunk(indices, 1)).tangent

(***************************************************************************)
(* The fallback textures.                                                  *)
(***************************************************************************)
\* the byte is within 1 of 255 * c
Within1(byte, c) == Abs(byte * 10000 - 255 * (c \div 1000)) <= 10000

\* a 1x1 texture whose bytes are the colour scaled to 0..255, alpha 0xff
IsColorPixel(texture, color) ==
    /\ texture.kind = "one_pixel"
    /\ texture.width = 1 /\ texture.height = 1
    /\ \A k \in 1..3 : Within1(texture.rgba[k], color[k])
    /\ texture.rgba[4] = 255

\* C23: for an empty diffuse or specular path the texture is one pixel of
\* the material's colour scaled to 0..255 with alpha 0xff, for an empty
\* normal path it is the pixel 0x80, 0x80, 0xff; the fallback is always
\* built, so that the body fails only where a named file cannot be opened.
C23_OnePixelFallback ==
    built.status # "none" =>
       /\ mat.diffuse_texture = "" =>
             Len(built.textures) >= 1 /\ IsColorPixel(built.textures[1], mat.diffuse)
       /\ mat.normal_texture = "" /\ Len(built.textures) >= 1 =>
             /\ Len(built.textures) >= 2
             /\ built.textures[2].kind = "one_pixel"
             /\ SubSeq(built.textures[2].rgba, 1, 3) = << 128, 128, 255 >>
       /\ mat.specular_texture = "" /\ Len(built.textures) >= 2 =>
             Len(built.textures) >= 3 /\ IsColorPixel(built.textures[3], mat.specular)
       /\ TexturePaths(mat) = << "", "", "" >> => built.status = "ok"

\* a material without texture files whose diffuse colour (0.5, 0.999, 1)
\* became the bytes 127, 254, 255
C23_Witness ==
    /\ built.status = "ok"
    /\ TexturePaths(mat) = << "", "", "" >>
    /\ mat.diffuse = << One \div 2, 9990000, One >>
    /\ built.textures[1].rgba = << 127, 254, 255, 255 >>

====
